---- MODULE Spec2Model ----
(***************************************************************************)
(* A model of kysely-duckdb-wasm: the table-expression rewriting pass of   *)
(* DuckDbQueryCompiler, the createTablesAsSelect helper, the result        *)
(* normalisation of DuckDBConnection (formatToResult / convertArrowValue), *)
(* the life cycle of DuckDbWasmDriver, the statements of executeQuery and  *)
(* streamQuery, and the table assembly of DuckDbIntrospector.              *)
(*                                                                         *)
(* SQL text and identifiers are sequences of one-character strings, so     *)
(* that quoting, doubling of quotes and substring search are computed.     *)
(***************************************************************************)
EXTENDS Integers, Sequences, FiniteSets, TLC

VARIABLES
    tableMappings,  \* DuckDbQueryCompiler.#configs.tableMappings
    node,           \* the table reference of the query being compiled
    sql,            \* the SQL text the compilation produced
    ctasEntries,    \* createTablesAsSelect: the entries of `tables` as written
    ctasPc,         \* createTablesAsSelect: where the call stands
    ctasIdx,        \* createTablesAsSelect: position in tableNames
    ctasIssued,     \* the statements handed to executeQuery, in order
    ctasError,      \* the error the call was rejected with
    field,          \* convertArrowValue: the arrow.Field of the value
    raw,            \* convertArrowValue: the value as the engine delivered it
    coerced,        \* convertArrowValue: the value returned
    stmtKind,       \* executeQuery: what kind of statement the SQL is
    qpc,            \* executeQuery: where the call stands
    batch,          \* executeQuery: the arrow.Table the engine answered with
    result,         \* executeQuery: the QueryResult formatToResult built
    faults,         \* executeQuery: the steps that fail in this call
    stmtCloses,     \* executeQuery: how often stmt.close() was called
    outcome,        \* executeQuery: what the call settled with
    driverConfig,   \* DuckDbWasmDriver.#config
    db,             \* DuckDbWasmDriver.#db
    calls,          \* the driver calls made so far, each where it stands
    factoryCalls,   \* how often config.database() was invoked
    terminations,   \* how often terminate() was called, per database
    connections,    \* how often db.connect() was called
    callbacks,      \* how often onCreateConnection was run
    streamIn,       \* streamQuery: the statement, its batches, its consumer
    outerPc,        \* streamQuery: the state of the generator it is
    innerPc,        \* streamQuery: the state of the generator gen() made
    cursor,         \* streamQuery: the batches read from the engine so far
    delivered,      \* streamQuery: the results the consumer received
    streamCloses,   \* streamQuery: how often stmt.close() was called
    columnRows,     \* DuckDbIntrospector: the rows of the columns query
    tableMetadata   \* DuckDbIntrospector: what #parseTableMetadata returned

compilerVars == <<tableMappings, node, sql>>
ctasVars == <<ctasEntries, ctasPc, ctasIdx, ctasIssued, ctasError>>
coerceVars == <<field, raw, coerced>>
queryVars == <<stmtKind, qpc, batch, result, faults, stmtCloses, outcome>>
driverVars ==
    <<driverConfig, db, calls, factoryCalls, terminations, connections,
      callbacks>>
streamVars == <<streamIn, outerPc, innerPc, cursor, delivered, streamCloses>>
schemaVars == <<columnRows, tableMetadata>>
laterVars == <<driverVars, streamVars, schemaVars>>
vars == <<compilerVars, ctasVars, coerceVars, queryVars, laterVars>>

----------------------------------------------------------------------------
(* Bounds *)

MaxNameLen == 2     \* longest table name
MaxAliasLen == 2    \* longest alias
MaxExprLen == 1     \* longest mapped SQL expression
MaxTables == 2      \* most entries in one createTablesAsSelect call
MaxBytes == 2       \* longest binary value
MaxMdKeys == 1      \* most logical-type hints in one field's metadata
MaxRows == 2        \* most rows in one batch
MaxAffected == 2    \* largest affected-row count the engine reports
MaxFractionLen == 6 \* most digits in a fraction of a second
MaxTuple == 4       \* most numbers in an interval tuple
MaxEntries == 2     \* most entries in a map or struct value

----------------------------------------------------------------------------
(* Strings *)

DQ == "\""

RECURSIVE SeqsUpTo(_, _)
SeqsUpTo(S, n) ==
    IF n = 0 THEN {<<>>}
    ELSE LET shorter == SeqsUpTo(S, n - 1)
         IN  shorter \cup {Append(s, c) : s \in shorter, c \in S}

NonEmpty(SS) == {s \in SS : s # <<>>}

\* haystack.includes(needle)
Includes(haystack, needle) ==
    \E i \in 0..(Len(haystack) - Len(needle)) :
        SubSeq(haystack, i + 1, i + Len(needle)) = needle

\* haystack.indexOf(needle); -1 when absent
IndexOf(haystack, needle) ==
    IF Includes(haystack, needle)
    THEN CHOOSE i \in 0..(Len(haystack) - Len(needle)) :
            /\ SubSeq(haystack, i + 1, i + Len(needle)) = needle
            /\ \A j \in 0..(i - 1) :
                   SubSeq(haystack, j + 1, j + Len(needle)) # needle
    ELSE -1

NoValue == <<"undefined">>   \* a slot that holds nothing (undefined)

----------------------------------------------------------------------------
(* DuckDbQueryCompiler *)

NameChars == {"p", DQ}
AliasChars == {"a", DQ}
ExprChars == {"r", DQ}

TableNames == NonEmpty(SeqsUpTo(NameChars, MaxNameLen))
AliasNames == NonEmpty(SeqsUpTo(AliasChars, MaxAliasLen))
MappedExprs == SeqsUpTo(ExprChars, MaxExprLen)
Schemas == {NoValue, <<"s">>}

getLeftIdentifierWrapper == DQ

getRightIdentifierWrapper == DQ

\* a sanitizer that leaves embedded double quotes as they are
sanitizeIdentifier_noDoubling(identifier) == identifier

RECURSIVE sanitizeIdentifier(_)
sanitizeIdentifier(identifier) ==
    IF identifier = <<>> THEN <<>>
    ELSE (IF Head(identifier) = DQ THEN <<DQ, DQ>> ELSE <<Head(identifier)>>)
         \o sanitizeIdentifier(Tail(identifier))

\* DefaultQueryCompiler.visitIdentifier, under the wrappers and the
\* sanitizer this compiler overrides
visitIdentifier(name) ==
    <<getLeftIdentifierWrapper>> \o sanitizeIdentifier(name)
        \o <<getRightIdentifierWrapper>>

\* The shapes an alias slot of a table node can hold
NoAlias == [shape |-> "none", name |-> <<>>]
AliasShapes ==
    {NoAlias, [shape |-> "object", name |-> <<>>]}
    \cup [shape : {"IdentifierNode"}, name : AliasNames]
    \cup [shape : {"string", "identifierLike"}, name : AliasNames \cup {<<>>}]

\* if (alias): null, undefined and the empty string are falsy
Truthy(alias) ==
    /\ alias.shape # "none"
    /\ ~(alias.shape = "string" /\ alias.name = <<>>)

\* node.alias ?? node.table.alias
Coalesce(a, b) == IF a.shape # "none" THEN a ELSE b

AS == <<" ", "a", "s", " ">>

\* super.visitTable: the schemable identifier, each part quoted
DefaultVisitTable(n) ==
    (IF n.schema # NoValue THEN visitIdentifier(n.schema) \o <<".">> ELSE <<>>)
    \o visitIdentifier(n.name)

\* a visitTable that never appends the alias carried by the table node
VisitTableAlias_dropped(n) == <<>>

\* the text visitTable appends for the alias carried by the table node
VisitTableAlias(n) ==
    IF n.parent = "AliasNode" THEN <<>>
    ELSE LET alias == Coalesce(n.nodeAlias, n.tableAlias)
         IN  IF ~Truthy(alias) THEN <<>>
             ELSE AS \o
                  (CASE alias.shape = "IdentifierNode" -> visitIdentifier(alias.name)
                     [] alias.shape = "string" -> visitIdentifier(alias.name)
                     [] alias.shape = "identifierLike" /\ alias.name # <<>> ->
                            visitIdentifier(alias.name)
                     [] OTHER -> <<>>)

\* a visitTable that hands the mapped expression to identifier quoting
visitTable_quoted(mappings, n) ==
    IF n.name \in DOMAIN mappings
    THEN visitIdentifier(mappings[n.name]) \o VisitTableAlias(n)
    ELSE DefaultVisitTable(n)

visitTable(mappings, n) ==
    IF n.name \in DOMAIN mappings
    THEN mappings[n.name] \o VisitTableAlias(n)
    ELSE DefaultVisitTable(n)

\* DefaultQueryCompiler.visitAlias: the aliased node, ' as ', the alias
visitAlias(mappings, n) ==
    visitTable(mappings, n) \o AS \o visitIdentifier(n.wrapAlias)

\* the reference as it is visited from its parent
visitReference(mappings, n) ==
    IF n.parent = "AliasNode" THEN visitAlias(mappings, n)
    ELSE visitTable(mappings, n)

FROM == <<"f", "r", "o", "m", " ">>

\* every table reference the compiler is handed
WrappedRefs ==
    [parent : {"AliasNode"}, wrapAlias : AliasNames,
     schema : Schemas, name : TableNames,
     nodeAlias : {NoAlias, [shape |-> "string", name |-> <<"a">>]},
     tableAlias : {NoAlias}]

BareRefs ==
    [parent : {"FromNode"}, wrapAlias : {<<>>},
     schema : Schemas, name : TableNames,
     nodeAlias : AliasShapes, tableAlias : {NoAlias}]
    \cup
    [parent : {"FromNode"}, wrapAlias : {<<>>},
     schema : Schemas, name : TableNames,
     nodeAlias : {NoAlias},
     tableAlias : {a \in AliasShapes : a.name \in {<<>>, <<DQ>>}}]
    \cup
    [parent : {"FromNode"}, wrapAlias : {<<>>},
     schema : Schemas, name : TableNames,
     nodeAlias : {[shape |-> "string", name |-> <<"a">>]},
     tableAlias : {[shape |-> "IdentifierNode", name |-> <<DQ>>]}]

TableRefs == WrappedRefs \cup BareRefs

\* the table names a configuration maps
MappedKeys == {<<"p">>, <<DQ>>}

\* every tableMappings object a dialect is constructed with
Mappings == UNION {[D -> MappedExprs] : D \in SUBSET MappedKeys}

\* a compiler constructed over some configuration, about to compile a query
\* whose from clause holds some table reference
CompilerInit ==
    /\ tableMappings \in Mappings
    /\ node \in TableRefs
    /\ sql = NoValue

CompilerIdle ==
    /\ tableMappings = <<>>
    /\ node = [parent |-> "FromNode", wrapAlias |-> <<>>, schema |-> NoValue,
               name |-> <<"p">>, nodeAlias |-> NoAlias, tableAlias |-> NoAlias]
    /\ sql = NoValue

\* DefaultQueryCompiler.compileQuery over the reference: one synchronous
\* traversal that leaves the SQL text
Compile ==
    /\ sql = NoValue
    /\ sql' = FROM \o visitReference(tableMappings, node)
    /\ UNCHANGED <<tableMappings, node, ctasVars, coerceVars, queryVars, laterVars>>

CompilerNext == Compile

\* the references compiled over and over: a table in a from clause
LifetimeRefs ==
    {n \in BareRefs : n.nodeAlias = NoAlias /\ n.tableAlias = NoAlias}

\* new DuckDbDialect(config) and createQueryCompiler(): the compiler holds
\* the caller's configuration object itself
LifetimeInit ==
    /\ tableMappings \in Mappings
    /\ node \in LifetimeRefs
    /\ sql = NoValue

\* the caller, after construction: config.tableMappings[key] = expr
ConfigAssigned ==
    /\ sql # NoValue
    /\ \E key \in MappedKeys, expr \in MappedExprs :
          tableMappings' =
              [k \in DOMAIN tableMappings \cup {key} |->
                  IF k = key THEN expr ELSE tableMappings[k]]
    /\ UNCHANGED <<node, sql, ctasVars, coerceVars, queryVars, laterVars>>

\* the caller, after construction: delete config.tableMappings[key]
ConfigDeleted ==
    /\ sql # NoValue
    /\ \E key \in DOMAIN tableMappings :
          tableMappings' =
              [k \in DOMAIN tableMappings \ {key} |-> tableMappings[k]]
    /\ UNCHANGED <<node, sql, ctasVars, coerceVars, queryVars, laterVars>>

\* a later compileQuery of the same instance over the same reference
CompileAgain ==
    /\ sql # NoValue
    /\ sql' = FROM \o visitReference(tableMappings, node)
    /\ UNCHANGED <<tableMappings, node, ctasVars, coerceVars, queryVars, laterVars>>

LifetimeNext == Compile \/ ConfigAssigned \/ ConfigDeleted \/ CompileAgain

----------------------------------------------------------------------------
(* JavaScript objects: property enumeration order *)

Digits == {"0", "1", "2", "3", "4", "5", "6", "7", "8", "9"}

DigitVal(c) ==
    CASE c = "0" -> 0 [] c = "1" -> 1 [] c = "2" -> 2 [] c = "3" -> 3
      [] c = "4" -> 4 [] c = "5" -> 5 [] c = "6" -> 6 [] c = "7" -> 7
      [] c = "8" -> 8 [] c = "9" -> 9

\* parseInt(digits, 10) over a run of decimal digits
RECURSIVE ParseInt(_)
ParseInt(ds) ==
    IF ds = <<>> THEN 0
    ELSE 10 * ParseInt(SubSeq(ds, 1, Len(ds) - 1)) + DigitVal(ds[Len(ds)])

\* a canonical array index: such keys are enumerated first, ascending
IsArrayIndex(key) ==
    /\ key # <<>>
    /\ \A i \in 1..Len(key) : key[i] \in Digits
    /\ (Len(key) = 1 \/ key[1] # "0")
    /\ Len(key) <= 9

\* obj[key] = val on an object held as its <<key, value>> entries in
\* enumeration order
ObjSet(obj, key, val) ==
    IF \E i \in 1..Len(obj) : obj[i][1] = key
    THEN [i \in 1..Len(obj) |-> IF obj[i][1] = key THEN <<key, val>> ELSE obj[i]]
    ELSE IF IsArrayIndex(key)
         THEN LET before == {i \in 1..Len(obj) :
                                /\ IsArrayIndex(obj[i][1])
                                /\ ParseInt(obj[i][1]) < ParseInt(key)}
                  k == Cardinality(before)
              IN  SubSeq(obj, 1, k) \o <<<<key, val>>>> \o SubSeq(obj, k + 1, Len(obj))
         ELSE Append(obj, <<key, val>>)

\* the object an object literal with these keys, written in this order,
\* evaluates to (every value is the select query of the entry)
RECURSIVE ObjectLiteral(_)
ObjectLiteral(keys) ==
    IF keys = <<>> THEN <<>>
    ELSE ObjSet(ObjectLiteral(SubSeq(keys, 1, Len(keys) - 1)),
                keys[Len(keys)], "query")

ObjectKeys(obj) == [i \in 1..Len(obj) |-> obj[i][1]]

----------------------------------------------------------------------------
(* KyselyDuckDbExtension.createTablesAsSelect *)

Letters ==
    {"a", "b", "c", "d", "e", "f", "g", "h", "i", "j", "k", "l", "m",
     "n", "o", "p", "q", "r", "s", "t", "u", "v", "w", "x", "y", "z",
     "A", "B", "C", "D", "E", "F", "G", "H", "I", "J", "K", "L", "M",
     "N", "O", "P", "Q", "R", "S", "T", "U", "V", "W", "X", "Y", "Z"}

IDENTIFIER_RE_source == "^[A-Za-z_][A-Za-z0-9_]*$"

\* IDENTIFIER_RE.test(name)
IDENTIFIER_RE_test(name) ==
    /\ name # <<>>
    /\ name[1] \in Letters \cup {"_"}
    /\ \A i \in 2..Len(name) : name[i] \in Letters \cup Digits \cup {"_"}

\* the table names a call is given: valid ones, and invalid ones by their
\* first character, by a later character, and by being empty
IdentNames ==
    {<<>>, <<"t">>, <<"_">>, <<"1">>, <<"-">>, <<"t", "1">>, <<"1", "t">>,
     <<"t", "-">>, <<"_", "T">>, <<"1", "1">>}

\* the keys of the `tables` argument in the order they are written
CtasArguments ==
    {ks \in SeqsUpTo(IdentNames, MaxTables) :
        \A i, j \in 1..Len(ks) : i # j => ks[i] # ks[j]}

NoError == [kind |-> "none", name |-> <<>>, pattern |-> ""]

\* the names in the order the argument was written
tableNames_asWritten == ctasEntries

\* Object.keys(tables)
tableNames == ObjectKeys(ObjectLiteral(ctasEntries))

CtasInit ==
    /\ ctasEntries \in CtasArguments
    /\ ctasPc = "called"
    /\ ctasIdx = 1
    /\ ctasIssued = <<>>
    /\ ctasError = NoError

CtasIdle ==
    /\ ctasEntries = <<>>
    /\ ctasPc = "idle"
    /\ ctasIdx = 1
    /\ ctasIssued = <<>>
    /\ ctasError = NoError

\* one turn of the for loop from position idx, up to its await, its throw
\* or the return after the last name
CtasIterate(idx) ==
    IF idx > Len(tableNames)
    THEN /\ ctasPc' = "returned"
         /\ UNCHANGED <<ctasIssued, ctasError>>
    ELSE IF ~IDENTIFIER_RE_test(tableNames[idx])
         THEN /\ ctasPc' = "rejected"
              /\ ctasError' = [kind |-> "Invalid table name",
                               name |-> tableNames[idx],
                               pattern |-> IDENTIFIER_RE_source]
              /\ UNCHANGED ctasIssued
         ELSE /\ ctasPc' = "awaiting"
              /\ ctasIssued' = Append(ctasIssued,
                                  [stmt |-> "CREATE TABLE AS",
                                   table |-> visitIdentifier(tableNames[idx])])
              /\ UNCHANGED ctasError

\* the call runs synchronously up to its first await
CtasCall ==
    /\ ctasPc = "called"
    /\ ctasIdx' = 1
    /\ CtasIterate(1)
    /\ UNCHANGED <<ctasEntries, compilerVars, coerceVars, queryVars, laterVars>>

\* the awaited executeQuery resolves; the loop goes on with the next name
CtasStatementDone ==
    /\ ctasPc = "awaiting"
    /\ ctasIdx' = ctasIdx + 1
    /\ CtasIterate(ctasIdx + 1)
    /\ UNCHANGED <<ctasEntries, compilerVars, coerceVars, queryVars, laterVars>>

\* the awaited executeQuery rejects; the error leaves the call
CtasStatementFailed ==
    /\ ctasPc = "awaiting"
    /\ ctasPc' = "rejected"
    /\ ctasError' = [kind |-> "engine error", name |-> tableNames[ctasIdx],
                     pattern |-> ""]
    /\ UNCHANGED <<ctasEntries, ctasIdx, ctasIssued, compilerVars, coerceVars,
                   queryVars, laterVars>>

CtasNext == CtasCall \/ CtasStatementDone \/ CtasStatementFailed

----------------------------------------------------------------------------
(* Values: what the engine delivers and what the driver returns *)

\* every value has the same fields: a tag, a number, a run of numbers, a
\* run of characters and the entries of an object
Value(t, n, b, c) == [t |-> t, n |-> n, b |-> b, c |-> c, e |-> <<>>]

Null == Value("null", 0, <<>>, <<>>)
Undefined == Value("undefined", 0, <<>>, <<>>)
Number(n) == Value("number", n, <<>>, <<>>)
BigInt(n) == Value("bigint", n, <<>>, <<>>)
Uint8Array(bytes) == Value("Uint8Array", 0, bytes, <<>>)
Int32Array(elems) == Value("Int32Array", 0, elems, <<>>)
PlainArray(elems) == Value("Array", 0, elems, <<>>)
String(chars) == Value("string", 0, <<>>, chars)

\* an object held as its <<key, value>> entries in enumeration order
WithEntries(t, entries) == [Value(t, 0, <<>>, <<>>) EXCEPT !.e = entries]
Object(entries) == WithEntries("Object", entries)

\* an array whose elements are values: its entries are keyed "0", "1", ...
ValueArray(entries) == WithEntries("ValueArray", entries)

\* value == null
IsNullish(value) == value.t \in {"null", "undefined"}

\* ArrayBuffer.isView(value)
IsView(value) == value.t \in {"Uint8Array", "Int32Array"}

\* Array.isArray(value)
IsArray(value) == value.t \in {"Array", "ValueArray"}

\* value && typeof value === "object"
IsObject(value) ==
    value.t \in {"Object", "ValueArray", "Array", "MapRow", "Uint8Array",
                 "Int32Array", "Date", "Custom"}

\* an object of a class the driver does not know: its entries are the
\* methods it answers to, each with the value the method returns
Custom(methods) == WithEntries("Custom", methods)

\* value.m && typeof value.m === "function"
HasMethod(value, m) ==
    /\ value.t = "Custom"
    /\ \E i \in 1..Len(value.e) : value.e[i][1] = m

\* value.m()
CallMethod(value, m) ==
    value.e[CHOOSE i \in 1..Len(value.e) : value.e[i][1] = m][2]

Field(name, typeId, metadata) ==
    [name |-> name, typeId |-> typeId, metadata |-> metadata,
     unit |-> "", children |-> <<>>]

NoMetadata == [k \in {} |-> <<>>]

----------------------------------------------------------------------------
(* DuckDBConnection: bit strings and blobs *)

LowerCase ==
    <<"a", "b", "c", "d", "e", "f", "g", "h", "i", "j", "k", "l", "m",
      "n", "o", "p", "q", "r", "s", "t", "u", "v", "w", "x", "y", "z">>

UpperCase ==
    <<"A", "B", "C", "D", "E", "F", "G", "H", "I", "J", "K", "L", "M",
      "N", "O", "P", "Q", "R", "S", "T", "U", "V", "W", "X", "Y", "Z">>

ToUpperCase(v) ==
    [i \in 1..Len(v) |->
        IF \E j \in 1..26 : LowerCase[j] = v[i]
        THEN UpperCase[CHOOSE j \in 1..26 : LowerCase[j] = v[i]]
        ELSE v[i]]

BIT == <<"B", "I", "T">>

\* the metadata keys probed for the logical type, in probing order
MetadataKeys ==
    <<"duckdb.logicalType", "duckdb_type", "logicalType", "duckdb.logical_type">>

isBitField(f) ==
    \/ f.typeId = "FixedSizeBinary"
    \/ \E i \in 1..Len(MetadataKeys) :
          /\ MetadataKeys[i] \in DOMAIN f.metadata
          /\ Includes(ToUpperCase(f.metadata[MetadataKeys[i]]), BIT)

\* the first position from i on that holds no character of the class
RECURSIVE SkipWhile(_, _, _)
SkipWhile(v, i, class) ==
    IF i <= Len(v) /\ v[i] \in class THEN SkipWhile(v, i + 1, class) ELSE i

\* /BIT\s*\(\s*(\d+)\s*\)/i tried at position i: the digits captured, or
\* <<>> when the pattern does not match there
BitWidthMatchAt(v, i) ==
    IF i + 2 > Len(v) \/ ToUpperCase(SubSeq(v, i, i + 2)) # BIT THEN <<>>
    ELSE LET open == SkipWhile(v, i + 3, {" "})
         IN  IF open > Len(v) \/ v[open] # "(" THEN <<>>
             ELSE LET first == SkipWhile(v, open + 1, {" "})
                      last == SkipWhile(v, first, Digits)
                      close == SkipWhile(v, last, {" "})
                  IN  IF last > first /\ close <= Len(v) /\ v[close] = ")"
                      THEN SubSeq(v, first, last - 1)
                      ELSE <<>>

\* v.match(/BIT\s*\(\s*(\d+)\s*\)/i): m[1] of the leftmost match, or <<>>
BitWidthMatch(v) ==
    LET hits == {i \in 1..Len(v) : BitWidthMatchAt(v, i) # <<>>}
    IN  IF hits = {} THEN <<>>
        ELSE BitWidthMatchAt(v, CHOOSE i \in hits : \A j \in hits : i <= j)

\* the loop over the metadata keys from the i-th on: the first declared
\* length that is positive, or 0 when no key declares one
RECURSIVE DeclaredBitLength(_, _)
DeclaredBitLength(md, i) ==
    IF i > Len(MetadataKeys) THEN 0
    ELSE LET k == MetadataKeys[i]
             m == IF k \in DOMAIN md THEN BitWidthMatch(md[k]) ELSE <<>>
         IN  IF m # <<>> /\ ParseInt(m) > 0 THEN ParseInt(m)
             ELSE DeclaredBitLength(md, i + 1)

\* byte.toString(2)
RECURSIVE ToString2(_)
ToString2(n) ==
    LET digit == IF n % 2 = 1 THEN "1" ELSE "0"
    IN  IF n < 2 THEN <<digit>> ELSE ToString2(n \div 2) \o <<digit>>

\* s.padStart(8, "0")
PadStart8(s) == [i \in 1..(IF Len(s) < 8 THEN 8 - Len(s) ELSE 0) |-> "0"] \o s

RECURSIVE BinaryString(_)
BinaryString(bytes) ==
    IF bytes = <<>> THEN <<>>
    ELSE PadStart8(ToString2(Head(bytes))) \o BinaryString(Tail(bytes))

\* binaryStr.slice(-len), len > 0
SliceLast(str, len) ==
    SubSeq(str, (IF Len(str) > len THEN Len(str) - len ELSE 0) + 1, Len(str))

\* binaryStr.replace(/^0+/, "")
StripLeadingZeros(str) == SubSeq(str, SkipWhile(str, 1, {"0"}), Len(str))

TestPattern == <<"0", "1", "0", "1", "0", "1">>

\* a toBitStringFromBytes that takes the first len digits, slice(0, len)
toBitStringFromBytes_sliceHead(bytes, f) ==
    LET binaryStr == BinaryString(bytes)
        len == DeclaredBitLength(f.metadata, 1)
        idx == IndexOf(binaryStr, TestPattern)
    IN  IF len > 0
        THEN SubSeq(binaryStr, 1, IF len < Len(binaryStr) THEN len ELSE Len(binaryStr))
        ELSE IF idx # -1 THEN SubSeq(binaryStr, idx + 1, idx + 6)
        ELSE IF StripLeadingZeros(binaryStr) # <<>>
             THEN StripLeadingZeros(binaryStr) ELSE <<"0">>

toBitStringFromBytes(bytes, f) ==
    LET binaryStr == BinaryString(bytes)
        len == DeclaredBitLength(f.metadata, 1)
        idx == IndexOf(binaryStr, TestPattern)
    IN  IF len > 0 THEN SliceLast(binaryStr, len)
        ELSE IF idx # -1 THEN SubSeq(binaryStr, idx + 1, idx + 6)
        ELSE IF StripLeadingZeros(binaryStr) # <<>>
             THEN StripLeadingZeros(binaryStr) ELSE <<"0">>

\* /^0+[01]+$/ over a string of binary digits
LeadingZeroShape(str) ==
    /\ Len(str) >= 2
    /\ str[1] = "0"
    /\ \A i \in 1..Len(str) : str[i] \in {"0", "1"}

likelyBitByBytes(bytes) ==
    /\ Len(bytes) = 2
    /\ LET fullBinary == PadStart8(ToString2(bytes[1]))
                         \o PadStart8(ToString2(bytes[2]))
       IN  Includes(fullBinary, TestPattern) \/ LeadingZeroShape(fullBinary)

----------------------------------------------------------------------------
(* Instants: JavaScript Date values *)

MsPerDay == 86400000

\* A Date is held as whole days since the epoch and milliseconds within
\* the day, so that its time value, day * MsPerDay + ms, needs no integer
\* wider than 32 bits. zone is "local" when the instant was read in the
\* host's time zone.
Date(day, ms) == Value("Date", 0, <<day, ms>>, <<>>)
LocalDate(day, ms) == Value("Date", 0, <<day, ms>>, <<"l", "o", "c", "a", "l">>)

\* new Date(NaN)
InvalidDate == Value("Date", 0, <<>>, <<"N", "a", "N">>)

IsDate(value) == value.t = "Date"
IsValidDate(value) == value.t = "Date" /\ Len(value.b) = 2

\* new Date(num) for a count of milliseconds
DateOfMs(num) == Date(num \div MsPerDay, num % MsPerDay)

\* new Date(num * 86400000) for a count of days
DateOfDays(num) == Date(num, 0)

\* days from 1970-01-01 to the civil date y-m-d (m from 1)
DaysFromCivil(y, m, d) ==
    LET yy == IF m <= 2 THEN y - 1 ELSE y
        era == yy \div 400
        yoe == yy - era * 400
        mp == IF m > 2 THEN m - 3 ELSE m + 9
        doy == (153 * mp + 2) \div 5 + d - 1
        doe == yoe * 365 + yoe \div 4 - yoe \div 100 + doy
    IN  era * 146097 + doe - 719468

\* new Date(Date.UTC(y, mo, d, hh, mm, ss, ms)), mo from 0; fields out of
\* range carry over, and a year 0..99 is taken as 1900 + year
DateUTC(y, mo, d, hh, mm, ss, ms) ==
    LET full == IF 0 <= y /\ y <= 99 THEN 1900 + y ELSE y
        ym == full + mo \div 12
        mn == mo % 12
        time == hh * 3600000 + mm * 60000 + ss * 1000 + ms
    IN  Date(DaysFromCivil(ym, mn + 1, 1) + d - 1 + time \div MsPerDay,
             time % MsPerDay)

CharAt(str, i) == IF 1 <= i /\ i <= Len(str) THEN str[i] ELSE ""

\* \d{n} at position i
IsDigits(str, i, n) ==
    /\ i + n - 1 <= Len(str)
    /\ \A k \in i..(i + n - 1) : str[k] \in Digits

NumAt(str, i, n) == ParseInt(SubSeq(str, i, i + n - 1))

\* (\d{4})-(\d{2})-(\d{2}) at the start
HasDatePart(str) ==
    /\ IsDigits(str, 1, 4) /\ CharAt(str, 5) = "-"
    /\ IsDigits(str, 6, 2) /\ CharAt(str, 8) = "-"
    /\ IsDigits(str, 9, 2)

\* a separator of the class, then (\d{2}):(\d{2}):(\d{2}), after the date
HasTimePart(str, separators) ==
    /\ CharAt(str, 11) \in separators
    /\ IsDigits(str, 12, 2) /\ CharAt(str, 14) = ":"
    /\ IsDigits(str, 15, 2) /\ CharAt(str, 17) = ":"
    /\ IsDigits(str, 18, 2)

\* the fractional digits after the seconds, <<>> when there are none
FractionOf(str) ==
    IF CharAt(str, 20) = "."
    THEN SubSeq(str, 21, SkipWhile(str, 21, Digits) - 1)
    ELSE <<>>

\* what follows the seconds and their fraction
ZoneOf(str) ==
    IF CharAt(str, 20) = "."
    THEN SubSeq(str, SkipWhile(str, 21, Digits), Len(str))
    ELSE SubSeq(str, 20, Len(str))

\* the first three digits of a fraction of a second, as milliseconds
Milliseconds(frac) == ParseInt(SubSeq(frac \o <<"0", "0", "0">>, 1, 3))

\* +HH:mm, -HH:mm, +HHmm or -HHmm
IsOffset(zone) ==
    /\ CharAt(zone, 1) \in {"+", "-"}
    /\ \/ Len(zone) = 6 /\ IsDigits(zone, 2, 2) /\ zone[4] = ":"
                        /\ IsDigits(zone, 5, 2)
       \/ Len(zone) = 5 /\ IsDigits(zone, 2, 4)

\* the minutes an offset is ahead of UTC
OffsetMinutes(zone) ==
    LET hours == NumAt(zone, 2, 2)
        minutes == NumAt(zone, Len(zone) - 1, 2)
    IN  (IF zone[1] = "-" THEN -1 ELSE 1) * (hours * 60 + minutes)

\* new Date(text) for the date-time format of the language: a date alone
\* is UTC midnight; a date and time ends in Z or an offset, or else is
\* read in the host's time zone; a fraction of a second of any length
\* counts by its first three digits. Other texts are not instants.
DateParse(text) ==
    IF ~HasDatePart(text) THEN InvalidDate
    ELSE LET y == NumAt(text, 1, 4)
             mo == NumAt(text, 6, 2)
             d == NumAt(text, 9, 2)
             inRange == mo \in 1..12 /\ d \in 1..31
         IN  IF ~inRange THEN InvalidDate
             ELSE IF Len(text) = 10
                  THEN Date(DaysFromCivil(y, mo, d), 0)
             ELSE IF ~HasTimePart(text, {"T"}) THEN InvalidDate
             ELSE LET hh == NumAt(text, 12, 2)
                      mm == NumAt(text, 15, 2)
                      ss == NumAt(text, 18, 2)
                      ms == Milliseconds(FractionOf(text))
                      zone == ZoneOf(text)
                      day == DaysFromCivil(y, mo, d)
                      utc(shift) ==
                          LET time == hh * 3600000 + (mm - shift) * 60000
                                         + ss * 1000 + ms
                          IN  Date(day + time \div MsPerDay, time % MsPerDay)
                  IN  IF hh > 23 \/ mm > 59 \/ ss > 59 THEN InvalidDate
                      ELSE IF CharAt(text, 20) = "." /\ FractionOf(text) = <<>>
                           THEN InvalidDate
                      ELSE IF zone = <<>>
                           THEN LocalDate(utc(0).b[1], utc(0).b[2])
                      ELSE IF zone = <<"Z">> THEN utc(0)
                      ELSE IF IsOffset(zone) THEN utc(OffsetMinutes(zone))
                      ELSE InvalidDate

\* value.replace(from, to): the first occurrence only
ReplaceFirst(str, from, to) ==
    IF \E i \in 1..Len(str) : str[i] = from
    THEN LET i == CHOOSE k \in 1..Len(str) :
                     str[k] = from /\ \A j \in 1..(k - 1) : str[j] # from
         IN  [k \in 1..Len(str) |-> IF k = i THEN to ELSE str[k]]
    ELSE str

\* /Z|[+-]\d{2}:?\d{2}$/.test(value)
HasTimezoneInfo(str) ==
    \/ \E i \in 1..Len(str) : str[i] = "Z"
    \/ Len(str) >= 6 /\ IsOffset(SubSeq(str, Len(str) - 5, Len(str)))
    \/ Len(str) >= 5 /\ IsOffset(SubSeq(str, Len(str) - 4, Len(str)))

\* case arrow.Type.Timestamp, for a text
TimestampFromString_noZ(str) == DateParse(ReplaceFirst(str, " ", "T"))

TimestampFromString(str) ==
    IF HasTimezoneInfo(str)
    THEN DateParse(ReplaceFirst(str, " ", "T"))
    ELSE DateParse(ReplaceFirst(str, " ", "T") \o <<"Z">>)

\* the threshold under which a number counts days
DayThreshold == 10000000

Abs(num) == IF num < 0 THEN -num ELSE num

\* small numbers are days since the epoch, large ones milliseconds
DateFromNumber_alwaysMs(num) == DateOfMs(num)

DateFromNumber(num) ==
    IF Abs(num) < DayThreshold THEN DateOfDays(num) ELSE DateOfMs(num)

\* /^(\d{4})-(\d{2})-(\d{2})(?:[ T](\d{2}):(\d{2}):(\d{2})(?:\.(\d{1,6}))?)?$/
DateTextMatch(str) ==
    /\ HasDatePart(str)
    /\ \/ Len(str) = 10
       \/ /\ HasTimePart(str, {" ", "T"})
          /\ \/ Len(str) = 19
             \/ /\ CharAt(str, 20) = "."
                /\ Len(FractionOf(str)) \in 1..6
                /\ ZoneOf(str) = <<>>

\* (m[7] + "000").slice(0, 3), parsed
FractionToMs_unpadded(frac) == ParseInt(frac)

FractionToMs(frac) == ParseInt(SubSeq(frac \o <<"0", "0", "0">>, 1, 3))

\* toDateFromValue with the epoch for a text the exact format rejects
toDateFromValue_epoch(value) ==
    IF IsDate(value) THEN value
    ELSE IF value.t \in {"number", "bigint"} THEN DateFromNumber(value.n)
    ELSE IF value.t = "string"
         THEN IF DateTextMatch(value.c)
              THEN LET frac == FractionOf(value.c)
                       timed == Len(value.c) > 10
                   IN  DateUTC(NumAt(value.c, 1, 4), NumAt(value.c, 6, 2) - 1,
                               NumAt(value.c, 9, 2),
                               IF timed THEN NumAt(value.c, 12, 2) ELSE 0,
                               IF timed THEN NumAt(value.c, 15, 2) ELSE 0,
                               IF timed THEN NumAt(value.c, 18, 2) ELSE 0,
                               IF frac # <<>> THEN FractionToMs(frac) ELSE 0)
              ELSE Date(0, 0)
    ELSE IF IsView(value) /\ Len(value.b) = 1 THEN DateFromNumber(value.b[1])
    ELSE value

toDateFromValue(value) ==
    IF IsDate(value) THEN value
    ELSE IF value.t \in {"number", "bigint"} THEN DateFromNumber(value.n)
    ELSE IF value.t = "string"
         THEN IF DateTextMatch(value.c)
              THEN LET frac == FractionOf(value.c)
                       timed == Len(value.c) > 10
                   IN  DateUTC(NumAt(value.c, 1, 4), NumAt(value.c, 6, 2) - 1,
                               NumAt(value.c, 9, 2),
                               IF timed THEN NumAt(value.c, 12, 2) ELSE 0,
                               IF timed THEN NumAt(value.c, 15, 2) ELSE 0,
                               IF timed THEN NumAt(value.c, 18, 2) ELSE 0,
                               IF frac # <<>> THEN FractionToMs(frac) ELSE 0)
              ELSE DateParse(value.c)
    ELSE IF IsView(value) /\ Len(value.b) = 1 THEN DateFromNumber(value.b[1])
    ELSE value

----------------------------------------------------------------------------
(* DuckDBConnection.convertArrowValue *)

Chars(word) ==
    CASE word = "months" -> <<"m", "o", "n", "t", "h", "s">>
      [] word = "days" -> <<"d", "a", "y", "s">>
      [] word = "micros" -> <<"m", "i", "c", "r", "o", "s">>
      [] word = "null" -> <<"n", "u", "l", "l">>
      [] word = "undefined" -> <<"u", "n", "d", "e", "f", "i", "n", "e", "d">>
      [] word = "toArray" -> <<"t", "o", "A", "r", "r", "a", "y">>
      [] word = "valueOf" -> <<"v", "a", "l", "u", "e", "O", "f">>
      [] word = "toJSON" -> <<"t", "o", "J", "S", "O", "N">>

\* { months, days, micros }
IntervalObject(months, days, micros) ==
    Object(<<<<Chars("months"), Number(months)>>,
             <<Chars("days"), Number(days)>>,
             <<Chars("micros"), Number(micros)>>>>)

\* Math.pow(2, 32) = Pow32Thousands * 1000 + Pow32Rest
Pow32Thousands == 4294967
Pow32Rest == 296

\* Math.floor((nanosHigh * Math.pow(2, 32) + nanosLow) / 1000), computed
\* without an integer wider than 32 bits
MicrosOfNanos(nanosHigh, nanosLow) ==
    nanosHigh * Pow32Thousands + (nanosHigh * Pow32Rest + nanosLow) \div 1000

\* the 2-value tuple of a typed array, by the unit of the interval type
IntervalFromPair_daysFirst(arr, unit) ==
    IntervalObject(arr[1], arr[2], 0)

IntervalFromPair(arr, unit) ==
    CASE unit = "YEAR_MONTH" -> IntervalObject(arr[1] * 12 + arr[2], 0, 0)
      [] unit = "DAY_TIME" -> IntervalObject(0, arr[1], arr[2] * 1000)
      [] unit = "MONTH_DAY_NANO" -> IntervalObject(arr[1] * 12 + arr[2], 0, 0)
      [] OTHER -> IntervalObject(arr[1], arr[2], 0)

\* case arrow.Type.Interval reaches a return statement
IntervalReturns(value) ==
    (value.t = "Array" \/ IsView(value)) /\ Len(value.b) >= 2

\* case arrow.Type.Interval, when it returns
IntervalFromValue(value, f) ==
    LET arr == value.b
    IN  IF value.t = "Array"
        THEN IF Len(arr) >= 3 THEN IntervalObject(arr[1], arr[2], arr[3])
             ELSE IntervalObject(arr[1], arr[2], 0)
        ELSE IF Len(arr) >= 4
             THEN IntervalObject(arr[1], arr[2], MicrosOfNanos(arr[3], arr[4]))
        ELSE IF Len(arr) >= 3 THEN IntervalObject(arr[1], arr[2], arr[3])
        ELSE IntervalFromPair(arr, f.unit)

\* a map as the engine delivers it: its entries in delivered order; n is
\* 1 when the object has a toArray method
MapRow(entries, hasToArray) ==
    [WithEntries("MapRow", entries) EXCEPT !.n = IF hasToArray THEN 1 ELSE 0]

\* `${val}`
TemplateString(val) ==
    CASE val.t = "string" -> val.c
      [] val.t = "null" -> Chars("null")
      [] val.t = "undefined" -> Chars("undefined")

\* pairs.join(", ")
RECURSIVE Join(_)
Join(pairs) ==
    IF pairs = <<>> THEN <<>>
    ELSE IF Len(pairs) = 1 THEN pairs[1]
    ELSE pairs[1] \o <<",", " ">> \o Join(Tail(pairs))

\* `{${pairs.join(", ")}}` over the pairs `${key}=${val}`
MapString(entries) ==
    <<"{">>
    \o Join([i \in 1..Len(entries) |->
                entries[i][1] \o <<"=">> \o TemplateString(entries[i][2])])
    \o <<"}">>

\* Array.from(view) when the result of toArray() is a typed array
FromToArray(returned) ==
    IF IsView(returned) THEN PlainArray(returned.b) ELSE returned

\* the generic conversion with valueOf asked before toArray
GenericConversion_valueOfFirst(value) ==
    IF IsView(value) THEN PlainArray(value.b)
    ELSE IF HasMethod(value, Chars("valueOf"))
         THEN CallMethod(value, Chars("valueOf"))
    ELSE IF HasMethod(value, Chars("toArray"))
         THEN FromToArray(CallMethod(value, Chars("toArray")))
    ELSE IF HasMethod(value, Chars("toJSON"))
         THEN CallMethod(value, Chars("toJSON"))
    ELSE value

\* the generic conversion after the switch
GenericConversion(value) ==
    IF IsView(value) THEN PlainArray(value.b)
    ELSE IF value.t = "MapRow" /\ value.n = 1
         THEN ValueArray([i \in 1..Len(value.e) |-> value.e[i]])
    ELSE IF HasMethod(value, Chars("toArray"))
         THEN FromToArray(CallMethod(value, Chars("toArray")))
    ELSE IF IsDate(value) THEN [Number(0) EXCEPT !.b = value.b]
    ELSE IF HasMethod(value, Chars("valueOf"))
         THEN CallMethod(value, Chars("valueOf"))
    ELSE IF HasMethod(value, Chars("toJSON"))
         THEN CallMethod(value, Chars("toJSON"))
    ELSE value

\* structType.children.find((f) => f.name === key)
HasChild(children, key) == \E i \in 1..Len(children) : children[i].name = key

FindChild(children, key) ==
    children[CHOOSE i \in 1..Len(children) :
                /\ children[i].name = key
                /\ \A j \in 1..(i - 1) : children[j].name # key]

\* return value, for a null or an absent value
ReturnNullish_null(value) == Null

ReturnNullish(value) == value

RECURSIVE convertArrowValue(_, _)
RECURSIVE StructFromArray(_, _, _)
RECURSIVE StructFromObject_dropUnknown(_, _, _)
RECURSIVE StructFromObject(_, _, _)

\* the result object after children 1..i have been visited
StructFromArray(value, children, i) ==
    IF i = 0 THEN <<>>
    ELSE LET built == StructFromArray(value, children, i - 1)
         IN  IF i - 1 < Len(value.e)
             THEN ObjSet(built, children[i].name,
                         convertArrowValue(value.e[i][2], children[i]))
             ELSE built

\* the result object after entries 1..i have been visited
StructFromObject_dropUnknown(entries, children, i) ==
    IF i = 0 THEN <<>>
    ELSE LET built == StructFromObject_dropUnknown(entries, children, i - 1)
             key == entries[i][1]
             val == entries[i][2]
         IN  IF HasChild(children, key)
             THEN ObjSet(built, key,
                         convertArrowValue(val, FindChild(children, key)))
             ELSE built

StructFromObject(entries, children, i) ==
    IF i = 0 THEN <<>>
    ELSE LET built == StructFromObject(entries, children, i - 1)
             key == entries[i][1]
             val == entries[i][2]
         IN  IF HasChild(children, key)
             THEN ObjSet(built, key,
                         convertArrowValue(val, FindChild(children, key)))
             ELSE ObjSet(built, key, val)

DateTypes == {"Date", "DateDay", "DateMillisecond"}

convertArrowValue(value, f) ==
    IF IsNullish(value) THEN ReturnNullish(value)
    ELSE IF f.typeId = "Map" /\ IsObject(value) /\ Len(value.e) > 0
         THEN String(MapString(value.e))
    ELSE CASE f.typeId \in DateTypes -> toDateFromValue(value)
           [] f.typeId = "Timestamp" /\ IsDate(value) -> value
           [] f.typeId = "Timestamp" /\ value.t = "string" ->
                TimestampFromString(value.c)
           [] f.typeId = "Timestamp" /\ value.t \in {"number", "bigint"} ->
                DateOfMs(value.n)
           [] f.typeId = "Struct" /\ value.t = "ValueArray" ->
                Object(StructFromArray(value, f.children, Len(f.children)))
           [] f.typeId = "Struct" /\ value.t = "Object" ->
                Object(StructFromObject(value.e, f.children, Len(value.e)))
           [] f.typeId \in {"Binary", "LargeBinary"} /\ IsView(value) ->
                IF isBitField(f) THEN String(toBitStringFromBytes(value.b, f))
                ELSE IF likelyBitByBytes(value.b)
                     THEN String(toBitStringFromBytes(value.b, f))
                     ELSE Uint8Array(value.b)
           [] f.typeId = "FixedSizeBinary" /\ IsView(value) ->
                String(toBitStringFromBytes(value.b, f))
           [] f.typeId = "Interval" /\ IntervalReturns(value) ->
                IntervalFromValue(value, f)
           [] OTHER -> GenericConversion(value)

\* logical-type hints a field's metadata can carry
Hints ==
    {BIT,
     <<"B", "I", "T", "(", "6", ")">>,
     <<"B", "I", "T", "(", "0", ")">>,
     <<"b", "i", "t", " ", "(", " ", "1", "0", " ", ")">>,
     <<"B", "L", "O", "B">>}

Metadatas ==
    UNION {[D -> Hints] :
              D \in {K \in SUBSET {MetadataKeys[i] : i \in 1..Len(MetadataKeys)} :
                        Cardinality(K) <= MaxMdKeys}}

ByteValues == {0, 2, 10, 170, 213}

BinaryFields ==
    {Field(<<"b">>, t, md) :
        t \in {"Binary", "LargeBinary", "FixedSizeBinary"}, md \in Metadatas}

BinaryValues ==
    {Null} \cup {Uint8Array(bytes) : bytes \in SeqsUpTo(ByteValues, MaxBytes)}

\* the date and time texts delivered: each part with the number it denotes
\* (days since the epoch, milliseconds since midnight, minutes ahead of UTC)
DateParts ==
    {[text |-> <<"1", "9", "9", "2", "-", "0", "9", "-", "2", "0">>, n |-> 8298],
     [text |-> <<"1", "9", "7", "0", "-", "0", "1", "-", "0", "1">>, n |-> 0]}

TimeParts ==
    {[text |-> <<"1", "1", ":", "3", "0", ":", "0", "0">>, n |-> 41400000],
     [text |-> <<"0", "0", ":", "0", "0", ":", "0", "0">>, n |-> 0],
     [text |-> <<"2", "3", ":", "5", "9", ":", "5", "9">>, n |-> 86399000]}

ZoneParts ==
    {[text |-> <<"Z">>, n |-> 0],
     [text |-> <<"+", "0", "3", ":", "0", "0">>, n |-> 180],
     [text |-> <<"-", "0", "5", ":", "3", "0">>, n |-> -330],
     [text |-> <<"+", "0", "3", "0", "0">>, n |-> 180]}

FractionChars == {"0", "9"}

Fractions ==
    SeqsUpTo(FractionChars, MaxFractionLen)
    \cup {<<"1", "2", "3">>, <<"0", "0", "1", "2", "3", "4">>}

Separators == {" ", "T"}

\* date, separator, time, fraction and zone written as one text
StampOf(date, sep, time, frac, zone) ==
    date \o <<sep>> \o time
    \o (IF frac = <<>> THEN <<>> ELSE <<".">> \o frac) \o zone

NaiveTexts ==
    {StampOf(date.text, sep, time.text, frac, <<>>) :
        date \in DateParts, sep \in Separators, time \in TimeParts,
        frac \in Fractions}

ZonedTexts ==
    {StampOf(date.text, sep, time.text, frac, zone.text) :
        date \in DateParts, sep \in Separators, time \in TimeParts,
        frac \in {<<>>, <<"1", "2", "3">>}, zone \in ZoneParts}

DateOnlyTexts == {date.text : date \in DateParts}

\* texts that are no date in any format
JunkTexts ==
    {<<>>, <<"a", "b", "c">>, <<"a", "b", "c", "Z">>, <<"n", "/", "a">>}

TimestampField == Field(<<"t">>, "Timestamp", NoMetadata)

DateFields == {Field(<<"d">>, t, NoMetadata) : t \in DateTypes}

TemporalNumbers ==
    {0, 1, -1, 8298, 9999999, -9999999, 10000000, -10000000, 86400000,
     716977800}

NumericValues ==
    {Number(n) : n \in TemporalNumbers} \cup {BigInt(n) : n \in TemporalNumbers}

TimestampInputs ==
    {TimestampField}
    \X ({String(text) : text \in NaiveTexts \cup ZonedTexts} \cup NumericValues)

DateInputs ==
    DateFields
    \X ({String(text) : text \in NaiveTexts \cup DateOnlyTexts}
        \cup NumericValues)

\* a text that is no date, for a Date field and for a Timestamp field
JunkInputs ==
    (DateFields \cup {TimestampField}) \X {String(text) : text \in JunkTexts}

IntervalUnits == {"YEAR_MONTH", "DAY_TIME", "MONTH_DAY_NANO"}

IntervalFields ==
    {[Field(<<"i">>, "Interval", NoMetadata) EXCEPT !.unit = unit] :
        unit \in IntervalUnits}

\* the numbers a tuple holds, and the low halves of a nanosecond count
\* (3 000 000 000 ns is the low word -1294967296)
TupleParts == {0, 1, -1, 12}
LowHalves == {0, 999, 1000, -1, -1294967296, 2000000000}

IntervalTuples ==
    SeqsUpTo(TupleParts, MaxTuple)
    \cup {<<months, days, high, low>> :
            months \in {0, 1}, days \in {0, 1}, high \in {0, 1, -1},
            low \in LowHalves}

IntervalValues ==
    {PlainArray(tuple) : tuple \in IntervalTuples}
    \cup {Int32Array(tuple) : tuple \in IntervalTuples}

IntervalInputs == IntervalFields \X IntervalValues

MapField == Field(<<"m">>, "Map", NoMetadata)

MapKeys == {<<"x">>, <<"z">>, <<"1", "0">>, <<"9">>}
MapTexts == {<<"y">>, <<"w">>}

\* the entries of a map in the order the engine delivers them: keys are
\* distinct
MapEntries ==
    {es \in SeqsUpTo(MapKeys \X {String(text) : text \in MapTexts}, MaxEntries) :
        \A i, j \in 1..Len(es) : i # j => es[i][1] # es[j][1]}

MapInputs ==
    {MapField}
    \X {MapRow(es, hasToArray) : es \in MapEntries, hasToArray \in BOOLEAN}

StructField(name, children) ==
    [Field(name, "Struct", NoMetadata) EXCEPT !.children = children]

ChildD == Field(<<"d">>, "Date", NoMetadata)
ChildN == StructField(<<"n">>, <<ChildD>>)

StructFields ==
    {StructField(<<"s">>, children) :
        children \in {<<>>, <<ChildD>>, <<ChildD, ChildN>>}}

\* what a struct holds under a key or at an index
StructMembers ==
    {Null, Undefined, Number(8298),
     Object(<<<<ChildD.name, Number(1)>>>>), Object(<<<<ChildD.name, Null>>>>)}

\* declared names, an undeclared name and an integer-like name
StructKeys == {ChildD.name, ChildN.name, <<"u">>, <<"0">>}

KeyedValues ==
    {Object(es) :
        es \in {s \in SeqsUpTo(StructKeys \X StructMembers, MaxEntries) :
                   \A i, j \in 1..Len(s) : i # j => s[i][1] # s[j][1]}}

IndexKey(i) == CASE i = 1 -> <<"0">> [] i = 2 -> <<"1">> [] i = 3 -> <<"2">>
                 [] OTHER -> <<"3">>

PositionalValues ==
    {ValueArray([i \in 1..Len(vs) |-> <<IndexKey(i), vs[i]>>]) :
        vs \in SeqsUpTo(StructMembers, MaxEntries)}

StructInputs == StructFields \X (KeyedValues \cup PositionalValues)

OtherFields ==
    {Field(<<"v">>, t, NoMetadata) : t \in {"Int32", "Utf8", "List"}}

\* what each method of an unknown object may return
MethodResults ==
    [toArray |-> {Uint8Array(<<1, 2>>), PlainArray(<<3>>)},
     valueOf |-> {Number(7)},
     toJSON |-> {String(<<"j">>)}]

\* values of a type the switch has no case for
OtherInputs ==
    OtherFields
    \X ({Custom(ms[1] \o ms[2] \o ms[3]) :
            ms \in SeqsUpTo({<<Chars("toArray"), r>> :
                                r \in MethodResults.toArray}, 1)
                  \X SeqsUpTo({<<Chars("valueOf"), r>> :
                                  r \in MethodResults.valueOf}, 1)
                  \X SeqsUpTo({<<Chars("toJSON"), r>> :
                                  r \in MethodResults.toJSON}, 1)}
         \cup {Number(5), String(<<"s">>), Uint8Array(<<4>>),
               Int32Array(<<6, 8>>), PlainArray(<<9>>)})

\* a null or an absent value, for a field of every type
NullInputs ==
    (BinaryFields \cup DateFields \cup {TimestampField} \cup IntervalFields
     \cup {MapField} \cup StructFields \cup OtherFields)
    \X {Null, Undefined}

\* every (field, value) pair handed to convertArrowValue
CoerceInputs ==
    (BinaryFields \X BinaryValues) \cup TimestampInputs \cup DateInputs
    \cup IntervalInputs
    \cup MapInputs \cup StructInputs \cup NullInputs \cup OtherInputs
    \cup JunkInputs

NotCoerced == Value("pending", 0, <<>>, <<>>)

CoerceInit ==
    /\ \E input \in CoerceInputs :
          /\ field = input[1]
          /\ raw = input[2]
    /\ coerced = NotCoerced

CoerceIdle ==
    /\ field = Field(<<"b">>, "Binary", NoMetadata)
    /\ raw = Null
    /\ coerced = NotCoerced

Convert ==
    /\ coerced = NotCoerced
    /\ coerced' = convertArrowValue(raw, field)
    /\ UNCHANGED <<field, raw, compilerVars, ctasVars, queryVars, laterVars>>

CoerceNext == Convert

----------------------------------------------------------------------------
(* DuckDBConnection.executeQuery and formatToResult *)

\* the column names taken for an affected-row count
CountAliases ==
    {<<"C", "o", "u", "n", "t">>, <<"c", "o", "u", "n", "t">>,
     <<"c", "h", "a", "n", "g", "e", "s">>,
     <<"r", "o", "w", "s", "_", "a", "f", "f", "e", "c", "t", "e", "d">>}

\* row[key] on a row of the table: the cell of the first field of that name
RowGet(fields, row, key) ==
    row[CHOOSE i \in 1..Len(fields) :
            /\ fields[i].name = key
            /\ \A j \in 1..(i - 1) : fields[j].name # key]

\* plainObject after the first i fields were assigned
RECURSIVE PlainObject(_, _, _)
PlainObject(fields, row, i) ==
    IF i = 0 THEN <<>>
    ELSE ObjSet(PlainObject(fields, row, i - 1), fields[i].name,
                convertArrowValue(RowGet(fields, row, fields[i].name),
                                  fields[i]))

\* formatToResult(result, sql); the sql argument is not read
formatToResult(table) ==
    LET fields == table.fields
        rowsArray == table.rows
    IN  IF /\ Len(fields) = 1
           /\ Len(rowsArray) >= 1
           /\ fields[1].name \in CountAliases
        THEN LET v == RowGet(fields, rowsArray[1], fields[1].name)
             IN  [rows |-> <<>>,
                  numAffectedRows |->
                      IF v.t = "number" THEN BigInt(v.n)
                      ELSE IF v.t = "bigint" THEN v ELSE Undefined]
        ELSE [rows |-> [r \in 1..Len(rowsArray) |->
                           PlainObject(fields, rowsArray[r], Len(fields))],
              numAffectedRows |-> Undefined]

\* the column the engine answers a statement without RETURNING with
CountColumn == Field(<<"C", "o", "u", "n", "t">>, "Int64", NoMetadata)

\* the schemas of the row-producing statements run
RowSchemas ==
    {<<Field(<<"c", "o", "u", "n", "t">>, "Int32", NoMetadata)>>,
     <<Field(<<"a">>, "Int32", NoMetadata)>>,
     <<Field(<<"b">>, "Binary", NoMetadata)>>,
     <<Field(<<"a">>, "Int32", NoMetadata),
       Field(<<"b">>, "Binary", NoMetadata)>>,
     <<Field(<<"a">>, "Int32", NoMetadata),
       Field(<<"0">>, "Int32", NoMetadata)>>}

\* the values the engine delivers in a column of the field
Cells(f) ==
    CASE f.typeId = "Int32" -> {Null, Number(3)}
      [] f.typeId = "Int64" -> {BigInt(2)}
      [] OTHER -> {Uint8Array(<<0, 10>>), Uint8Array(<<170>>)}

RowsOf(schema) ==
    {row \in [1..Len(schema) -> UNION {Cells(schema[i]) : i \in 1..Len(schema)}] :
        \A i \in 1..Len(schema) : row[i] \in Cells(schema[i])}

\* what the engine answers a statement of the kind with
EngineTables(kind) ==
    IF kind = "dml"
    THEN {[fields |-> <<CountColumn>>, rows |-> <<<<BigInt(n)>>>>] :
             n \in 0..MaxAffected}
    ELSE UNION {{[fields |-> schema, rows |-> rows] :
                    rows \in SeqsUpTo(RowsOf(schema), MaxRows)} :
                schema \in RowSchemas}

StatementKinds == {"select", "dml", "dmlReturning"}

NoTable == [fields |-> <<>>, rows |-> <<>>]
NoResult == [rows |-> <<>>, numAffectedRows |-> Undefined]

\* the steps of a call that may fail
Steps == {"prepare", "query", "format", "close"}

Pending == [kind |-> "pending", step |-> ""]
Fulfilled == [kind |-> "result", step |-> ""]

\* the call is rejected with the error of the step
Rejected(step) == [kind |-> "error", step |-> step]

QueryInit ==
    /\ stmtKind \in StatementKinds
    /\ qpc = "called"
    /\ batch = NoTable
    /\ result = NoResult
    /\ faults \in SUBSET Steps
    /\ stmtCloses = 0
    /\ outcome = Pending

QueryIdle ==
    /\ stmtKind = "select"
    /\ qpc = "idle"
    /\ batch = NoTable
    /\ result = NoResult
    /\ faults = {}
    /\ stmtCloses = 0
    /\ outcome = Pending

\* await this.#conn.prepare(sql) resolves
Prepared ==
    /\ qpc = "called"
    /\ "prepare" \notin faults
    /\ qpc' = "prepared"
    /\ UNCHANGED <<stmtKind, batch, result, faults, stmtCloses, outcome,
                   compilerVars, ctasVars, coerceVars, laterVars>>

\* await this.#conn.prepare(sql) rejects: there is no statement yet
PrepareFailed ==
    /\ qpc = "called"
    /\ "prepare" \in faults
    /\ qpc' = "settled"
    /\ outcome' = Rejected("prepare")
    /\ UNCHANGED <<stmtKind, batch, result, faults, stmtCloses,
                   compilerVars, ctasVars, coerceVars, laterVars>>

\* await stmt.query(...) resolves: the result is formatted and, in the
\* finally block, stmt.close() is called and awaited
QueryResolved ==
    /\ qpc = "prepared"
    /\ faults \cap {"query", "format"} = {}
    /\ \E table \in EngineTables(stmtKind) :
          /\ batch' = table
          /\ result' = formatToResult(table)
    /\ outcome' = Fulfilled
    /\ stmtCloses' = stmtCloses + 1
    /\ qpc' = "closing"
    /\ UNCHANGED <<stmtKind, faults, compilerVars, ctasVars, coerceVars,
                   laterVars>>

\* await stmt.query(...) rejects: the finally block closes the statement
QueryFailed ==
    /\ qpc = "prepared"
    /\ "query" \in faults
    /\ outcome' = Rejected("query")
    /\ stmtCloses' = stmtCloses + 1
    /\ qpc' = "closing"
    /\ UNCHANGED <<stmtKind, batch, result, faults, compilerVars, ctasVars,
                   coerceVars, laterVars>>

\* the query resolves and formatToResult throws: the finally block closes
\* the statement
FormatFailed ==
    /\ qpc = "prepared"
    /\ "query" \notin faults /\ "format" \in faults
    /\ outcome' = Rejected("format")
    /\ stmtCloses' = stmtCloses + 1
    /\ qpc' = "closing"
    /\ UNCHANGED <<stmtKind, batch, result, faults, compilerVars, ctasVars,
                   coerceVars, laterVars>>

\* the close resolves; executeQuery settles with what the try block left
Closed ==
    /\ qpc = "closing"
    /\ "close" \notin faults
    /\ qpc' = "settled"
    /\ UNCHANGED <<stmtKind, batch, result, faults, stmtCloses, outcome,
                   compilerVars, ctasVars, coerceVars, laterVars>>

\* a failed close whose error takes the place of the outcome
CloseFailed_rethrown ==
    /\ qpc = "closing"
    /\ "close" \in faults
    /\ qpc' = "settled"
    /\ outcome' = Rejected("close")
    /\ UNCHANGED <<stmtKind, batch, result, faults, stmtCloses,
                   compilerVars, ctasVars, coerceVars, laterVars>>

\* the close rejects: catch { /* ignore */ }
CloseFailed ==
    /\ qpc = "closing"
    /\ "close" \in faults
    /\ qpc' = "settled"
    /\ UNCHANGED <<stmtKind, batch, result, faults, stmtCloses, outcome,
                   compilerVars, ctasVars, coerceVars, laterVars>>

QueryNext ==
    \/ Prepared \/ PrepareFailed \/ QueryResolved \/ QueryFailed
    \/ FormatFailed \/ Closed \/ CloseFailed

----------------------------------------------------------------------------
(* DuckDbWasmDriver: init, acquireConnection, destroy *)

\* the calls made on one driver
MaxCalls == 4

\* this.#db === undefined
NoDb == 0

\* the databases: an instance given in the configuration is database 1,
\* the k-th invocation of a factory resolves to database k
Dbs == 1..MaxCalls

\* a call of the driver: the method, where it stands, the database it
\* holds, and whether it was made while the driver was not initialized
DriverCall(op, pc, held, early) ==
    [op |-> op, pc |-> pc, held |-> held, early |-> early]

\* the call has returned: after its work ("done") or, for an init() that
\* found a database, at once ("returned")
Completed(call) == call.pc \in {"done", "returned"}

\* no init() has returned yet
NoInitCompleted ==
    \A j \in 1..Len(calls) : calls[j].op = "init" => ~Completed(calls[j])

\* a destroy() has terminated a database and returned, and every init()
\* was called before it and has returned
TerminatedSince ==
    \E j \in 1..Len(calls) :
        /\ calls[j].op = "destroy" /\ calls[j].pc = "done"
        /\ calls[j].held # NoDb
        /\ \A k \in 1..Len(calls) :
              calls[k].op = "init" => k < j /\ Completed(calls[k])

DriverInit ==
    /\ driverConfig \in [database : {"factory", "instance"},
                          onCreateConnection : BOOLEAN]
    /\ db = NoDb
    /\ calls = <<>>
    /\ factoryCalls = 0
    /\ terminations = [d \in Dbs |-> 0]
    /\ connections = 0
    /\ callbacks = 0

DriverIdle ==
    /\ driverConfig = [database |-> "instance", onCreateConnection |-> FALSE]
    /\ db = NoDb
    /\ calls = <<>>
    /\ factoryCalls = 0
    /\ terminations = [d \in Dbs |-> 0]
    /\ connections = 0
    /\ callbacks = 0

Settle(i, held) == [calls EXCEPT ![i].pc = "done", ![i].held = held]

\* init(), up to its await: returns when #db is set, else invokes the
\* factory, or takes the instance of the configuration
InitCalled ==
    /\ Len(calls) < MaxCalls
    /\ IF db # NoDb
       THEN /\ calls' = Append(calls, DriverCall("init", "returned", db,
                                                 FALSE))
            /\ UNCHANGED <<db, factoryCalls>>
       ELSE IF driverConfig.database = "factory"
       THEN /\ factoryCalls' = factoryCalls + 1
            /\ calls' = Append(calls, DriverCall("init", "awaitingFactory",
                                                 factoryCalls + 1, FALSE))
            /\ UNCHANGED db
       ELSE /\ db' = 1
            /\ calls' = Append(calls, DriverCall("init", "done", 1, FALSE))
            /\ UNCHANGED factoryCalls
    /\ UNCHANGED <<driverConfig, terminations, connections, callbacks,
                   compilerVars, ctasVars, coerceVars, queryVars, streamVars,
                   schemaVars>>

\* the factory's promise resolves: this.#db = the database
FactoryResolved ==
    /\ \E i \in 1..Len(calls) :
          /\ calls[i].pc = "awaitingFactory"
          /\ db' = calls[i].held
          /\ calls' = Settle(i, calls[i].held)
    /\ UNCHANGED <<driverConfig, factoryCalls, terminations, connections,
                   callbacks, compilerVars, ctasVars, coerceVars, queryVars,
                   streamVars, schemaVars>>

\* acquireConnection(), up to its await: throws without a database, else
\* calls db.connect()
AcquireCalled ==
    /\ Len(calls) < MaxCalls
    /\ LET early == NoInitCompleted \/ TerminatedSince
       IN  IF db = NoDb
           THEN /\ calls' = Append(calls, DriverCall("acquireConnection",
                                        "not initialized", NoDb, early))
                /\ UNCHANGED connections
           ELSE /\ calls' = Append(calls, DriverCall("acquireConnection",
                                        "connecting", db, early))
                /\ connections' = connections + 1
    /\ UNCHANGED <<driverConfig, db, factoryCalls, terminations, callbacks,
                   compilerVars, ctasVars, coerceVars, queryVars, streamVars,
                   schemaVars>>

\* db.connect() resolves: onCreateConnection is called when there is one
Connected ==
    /\ \E i \in 1..Len(calls) :
          /\ calls[i].pc = "connecting"
          /\ IF driverConfig.onCreateConnection
             THEN /\ calls' = [calls EXCEPT ![i].pc = "inCallback"]
                  /\ callbacks' = callbacks + 1
             ELSE /\ calls' = Settle(i, calls[i].held)
                  /\ UNCHANGED callbacks
    /\ UNCHANGED <<driverConfig, db, factoryCalls, terminations, connections,
                   compilerVars, ctasVars, coerceVars, queryVars, streamVars,
                   schemaVars>>

\* onCreateConnection resolves: the connection is returned
CallbackDone ==
    /\ \E i \in 1..Len(calls) :
          /\ calls[i].pc = "inCallback"
          /\ calls' = Settle(i, calls[i].held)
    /\ UNCHANGED <<driverConfig, db, factoryCalls, terminations, connections,
                   callbacks, compilerVars, ctasVars, coerceVars, queryVars,
                   streamVars, schemaVars>>

\* destroy(), up to its await: calls terminate() on the database, if any
DestroyCalled ==
    /\ Len(calls) < MaxCalls
    /\ IF db # NoDb
       THEN /\ terminations' = [terminations EXCEPT ![db] = @ + 1]
            /\ calls' = Append(calls, DriverCall("destroy", "terminating",
                                                 db, FALSE))
       ELSE /\ calls' = Append(calls, DriverCall("destroy", "done", NoDb,
                                                 FALSE))
            /\ UNCHANGED terminations
    /\ UNCHANGED <<driverConfig, db, factoryCalls, connections, callbacks,
                   compilerVars, ctasVars, coerceVars, queryVars, streamVars,
                   schemaVars>>

\* terminate() resolves: this.#db = undefined
TerminateResolved ==
    /\ \E i \in 1..Len(calls) :
          /\ calls[i].pc = "terminating"
          /\ db' = NoDb
          /\ calls' = Settle(i, calls[i].held)
    /\ UNCHANGED <<driverConfig, factoryCalls, terminations, connections,
                   callbacks, compilerVars, ctasVars, coerceVars, queryVars,
                   streamVars, schemaVars>>

DriverNext ==
    \/ InitCalled \/ FactoryResolved \/ AcquireCalled \/ Connected
    \/ CallbackDone \/ DestroyCalled \/ TerminateResolved

----------------------------------------------------------------------------
(* DuckDBConnection.streamQuery *)

\* the record batches a statement streams
MaxBatches == 2

\* a record batch of a select over one Int32 column
StreamBatches ==
    {[fields |-> <<Field(<<"a">>, "Int32", NoMetadata)>>, rows |-> rows] :
        rows \in SeqsUpTo({<<Number(3)>>, <<Null>>}, 1)}

\* who holds the iterator streamQuery returned: a for await loop over it,
\* or a caller that takes the value of its last step and iterates that
Consumers == {"forAwait", "unwraps"}

StreamInit ==
    /\ streamIn \in [batches : SeqsUpTo(StreamBatches, MaxBatches),
                      sendFails : BOOLEAN,
                      consumer : Consumers]
    /\ outerPc = "suspendedStart"
    /\ innerPc = "none"
    /\ cursor = 0
    /\ delivered = <<>>
    /\ streamCloses = 0

StreamIdle ==
    /\ streamIn = [batches |-> <<>>, sendFails |-> FALSE,
                   consumer |-> "forAwait"]
    /\ outerPc = "idle"
    /\ innerPc = "none"
    /\ cursor = 0
    /\ delivered = <<>>
    /\ streamCloses = 0

\* the consumer's first next(): the body of streamQuery starts and awaits
\* this.#conn.prepare(sql)
OuterNext ==
    /\ outerPc = "suspendedStart"
    /\ outerPc' = "awaitingPrepare"
    /\ UNCHANGED <<streamIn, innerPc, cursor, delivered, streamCloses,
                   compilerVars, ctasVars, coerceVars, queryVars, driverVars,
                   schemaVars>>

\* prepare resolves: stmt.send(...parameters) is called and awaited
StreamPrepared ==
    /\ outerPc = "awaitingPrepare"
    /\ outerPc' = "awaitingSend"
    /\ UNCHANGED <<streamIn, innerPc, cursor, delivered, streamCloses,
                   compilerVars, ctasVars, coerceVars, queryVars, driverVars,
                   schemaVars>>

\* send rejects: the statement is closed, then the error is thrown again
SendFailed ==
    /\ outerPc = "awaitingSend"
    /\ streamIn.sendFails
    /\ streamCloses' = streamCloses + 1
    /\ outerPc' = "threw"
    /\ UNCHANGED <<streamIn, innerPc, cursor, delivered, compilerVars,
                   ctasVars, coerceVars, queryVars, driverVars, schemaVars>>

\* send resolves: gen() makes the inner generator, which has not started,
\* and `return gen()` ends the generator streamQuery is, with the inner
\* generator as the value of its last step
SendResolved ==
    /\ outerPc = "awaitingSend"
    /\ ~streamIn.sendFails
    /\ innerPc' = "suspendedStart"
    /\ outerPc' = "completed"
    /\ UNCHANGED <<streamIn, cursor, delivered, streamCloses, compilerVars,
                   ctasVars, coerceVars, queryVars, driverVars, schemaVars>>

\* the inner generator is in the hands of the consumer
InnerHeld ==
    /\ streamIn.consumer = "unwraps"
    /\ innerPc \in {"suspendedStart", "suspendedYield"}

\* next() on the inner generator while the engine has a batch:
\* yield self.formatToResult(result, sql)
InnerNext ==
    /\ InnerHeld
    /\ cursor < Len(streamIn.batches)
    /\ cursor' = cursor + 1
    /\ delivered' =
          Append(delivered, formatToResult(streamIn.batches[cursor + 1]))
    /\ innerPc' = "suspendedYield"
    /\ UNCHANGED <<streamIn, outerPc, streamCloses, compilerVars, ctasVars,
                   coerceVars, queryVars, driverVars, schemaVars>>

\* next() on the inner generator after the last batch: the loop ends and
\* the finally block closes the statement
InnerExhausted ==
    /\ InnerHeld
    /\ cursor = Len(streamIn.batches)
    /\ streamCloses' = streamCloses + 1
    /\ innerPc' = "completed"
    /\ UNCHANGED <<streamIn, outerPc, cursor, delivered, compilerVars,
                   ctasVars, coerceVars, queryVars, driverVars, schemaVars>>

\* return() on the inner generator: suspended at its yield, it runs the
\* finally block; not yet started, it ends without running any of its body
InnerReturn ==
    /\ InnerHeld
    /\ streamCloses' =
          IF innerPc = "suspendedYield" THEN streamCloses + 1
          ELSE streamCloses
    /\ innerPc' = "completed"
    /\ UNCHANGED <<streamIn, outerPc, cursor, delivered, compilerVars,
                   ctasVars, coerceVars, queryVars, driverVars, schemaVars>>

StreamNext ==
    \/ OuterNext \/ StreamPrepared \/ SendFailed \/ SendResolved
    \/ InnerNext \/ InnerExhausted \/ InnerReturn

----------------------------------------------------------------------------
(* DuckDbIntrospector.#parseTableMetadata *)

\* the rows of the columns query handed to one call
MaxColumnRows == 2

\* a row of RawColumnMetadata
ColumnRow(schema, table, column, type) ==
    [table_schema |-> schema, table_name |-> table, column_name |-> column,
     table_type |-> type]

\* `${it.table_schema}.${it.table_name}`
TableKey(it) == it.table_schema \o <<".">> \o it.table_name

\* tableMap.get(key): the position of the key in the map, 0 without it
MapIndex(tableMap, key) ==
    IF \E i \in 1..Len(tableMap) : tableMap[i].key = key
    THEN CHOOSE i \in 1..Len(tableMap) : tableMap[i].key = key
    ELSE 0

\* the body of the loop over the rows: the table of the row's key is made
\* when the map has none, and the column is pushed onto it
AddColumn(tableMap, it) ==
    LET key == TableKey(it)
        at == MapIndex(tableMap, key)
        made == [key |-> key, name |-> it.table_name,
                 isView |-> (it.table_type = "view"),
                 schema |-> it.table_schema, columns |-> <<>>]
        map == IF at = 0 THEN Append(tableMap, made) ELSE tableMap
        i == IF at = 0 THEN Len(map) ELSE at
    IN  [map EXCEPT ![i].columns = Append(@, it.column_name)]

RECURSIVE BuildTableMap(_, _)
\* for (const it of columns) over the first n rows
BuildTableMap(columns, n) ==
    IF n = 0 THEN <<>>
    ELSE AddColumn(BuildTableMap(columns, n - 1), columns[n])

\* the frozen tables, in the order of tableMap.values()
parseTableMetadata(columns) ==
    LET tableMap == BuildTableMap(columns, Len(columns))
    IN  [i \in 1..Len(tableMap) |->
            [name |-> tableMap[i].name, isView |-> tableMap[i].isView,
             schema |-> tableMap[i].schema, columns |-> tableMap[i].columns]]

SchemaNames == {<<"s">>, <<"s", ".", "t">>}
TableNamesListed == {<<"t">>, <<"u">>, <<"t", ".", "u">>}
ColumnNames == {<<"c">>, <<"d">>}

\* the rows the columns query may answer with
ColumnRows ==
    {ColumnRow(schema, table, column, "BASE TABLE") :
        schema \in SchemaNames, table \in TableNamesListed,
        column \in ColumnNames}

NotParsed == [parsed |-> FALSE, tables |-> <<>>]

SchemaInit ==
    /\ columnRows \in SeqsUpTo(ColumnRows, MaxColumnRows)
    /\ tableMetadata = NotParsed

SchemaIdle ==
    /\ columnRows = <<>>
    /\ tableMetadata = NotParsed

\* return this.#parseTableMetadata(rawColumns)
ParseTableMetadata ==
    /\ ~tableMetadata.parsed
    /\ tableMetadata' =
          [parsed |-> TRUE, tables |-> parseTableMetadata(columnRows)]
    /\ UNCHANGED <<columnRows, compilerVars, ctasVars, coerceVars, queryVars,
                   driverVars, streamVars>>

SchemaNext == ParseTableMetadata

----------------------------------------------------------------------------
(* Properties of the table-expression rewriting *)

\* an identifier under the quoting contract: wrapped in double quotes,
\* every embedded double quote doubled
QuotedIdentifier(name) ==
    LET pos(i) == i + Cardinality({j \in 1..(i - 1) : name[j] = DQ})
        n == Len(name) + Cardinality({j \in 1..Len(name) : name[j] = DQ})
        inner == [k \in 1..n |->
                     IF \E i \in 1..Len(name) : pos(i) = k
                     THEN name[CHOOSE i \in 1..Len(name) : pos(i) = k]
                     ELSE DQ]
    IN  <<DQ>> \o inner \o <<DQ>>

Compiled == sql # NoValue

IsMapped == node.name \in DOMAIN tableMappings

\* the alias the caller gave the reference: the one of the enclosing alias
\* node, else a named alias carried by the table node
CallerAlias ==
    IF node.parent = "AliasNode" THEN node.wrapAlias
    ELSE LET alias == IF node.nodeAlias.shape # "none" THEN node.nodeAlias
                      ELSE node.tableAlias
         IN  IF alias.shape \in {"IdentifierNode", "string", "identifierLike"}
             THEN alias.name ELSE <<>>

\* the SQL text after the from keyword
Emitted == SubSeq(sql, Len(FROM) + 1, Len(sql))

\* C1: a mapped table reference that the caller aliased as A compiles to
\* SQL containing the mapped expression immediately followed by ` as `
\* and A quoted as an identifier
C1_MappingKeepsAlias ==
    (Compiled /\ IsMapped /\ CallerAlias # <<>>) =>
        Includes(sql, tableMappings[node.name] \o AS
                          \o QuotedIdentifier(CallerAlias))

C1_Witness ==
    /\ Compiled /\ IsMapped
    /\ node.parent = "AliasNode"
    /\ tableMappings[node.name] # <<>>
    /\ DQ \in {CallerAlias[i] : i \in 1..Len(CallerAlias)}

\* C2: for a mapped table reference the text emitted for the table is the
\* mapped expression character for character, with no wrapper around it and
\* no double quote of it doubled; only an alias clause may follow it
C2_MappedExpressionVerbatim ==
    (Compiled /\ IsMapped) =>
        LET expr == tableMappings[node.name]
        IN  /\ Len(Emitted) >= Len(expr)
            /\ SubSeq(Emitted, 1, Len(expr)) = expr
            /\ \/ Len(Emitted) = Len(expr)
               \/ SubSeq(Emitted, Len(expr) + 1, Len(expr) + Len(AS)) = AS

C2_Witness ==
    /\ Compiled /\ IsMapped
    /\ DQ \in {tableMappings[node.name][i] :
                  i \in 1..Len(tableMappings[node.name])}
    /\ Emitted = tableMappings[node.name]

\* C3: a table reference whose name is not a key of tableMappings compiles,
\* whatever the mapping holds, to its name wrapped in double quotes with
\* every embedded double quote doubled (after its quoted schema, before the
\* alias of an enclosing alias node)
C3_UnmappedDefaultQuoting ==
    (Compiled /\ ~IsMapped) =>
        sql = FROM
              \o (IF node.schema # NoValue
                  THEN QuotedIdentifier(node.schema) \o <<".">> ELSE <<>>)
              \o QuotedIdentifier(node.name)
              \o (IF node.parent = "AliasNode"
                  THEN AS \o QuotedIdentifier(node.wrapAlias) ELSE <<>>)

C3_Witness ==
    /\ Compiled /\ ~IsMapped
    /\ DOMAIN tableMappings # {}
    /\ DQ \in {node.name[i] : i \in 1..Len(node.name)}
    /\ Len(sql) > Len(FROM) + Len(node.name) + 2

----------------------------------------------------------------------------
(* Properties of createTablesAsSelect *)

CtasFinished == ctasPc \in {"returned", "rejected"}

HasInvalidName ==
    \E i \in 1..Len(ctasEntries) : ~IDENTIFIER_RE_test(ctasEntries[i])

\* C4: a createTablesAsSelect call given at least one invalid table name
\* issues no statement at all, and ends rejected with the error that names
\* an invalid name of the call and the required pattern
C4_InvalidNameBeforeAnySql ==
    HasInvalidName =>
        /\ ctasIssued = <<>>
        /\ CtasFinished =>
              /\ ctasPc = "rejected"
              /\ ctasError.kind = "Invalid table name"
              /\ ctasError.pattern = IDENTIFIER_RE_source
              /\ ~IDENTIFIER_RE_test(ctasError.name)
              /\ \E i \in 1..Len(ctasEntries) : ctasEntries[i] = ctasError.name

\* the keys of the argument in the order the language enumerates them
KeyOrder == ObjectKeys(ObjectLiteral(ctasEntries))

\* the statement that creates the table of the k-th key
StatementFor(k) ==
    [stmt |-> "CREATE TABLE AS", table |-> QuotedIdentifier(KeyOrder[k])]

\* C29: the statements issued are, one for each key and in key order, those
\* of a prefix of the keys; a statement is issued only when the one before
\* has completed; a call that returns has issued one statement for every
\* key; a call rejected by a name check or by a failed statement has issued
\* the statements up to there and no other, and nothing undoes them.
C29_OneStatementPerEntryInOrder ==
    /\ Len(ctasIssued) <= Len(KeyOrder)
    /\ ctasIssued = [k \in 1..Len(ctasIssued) |-> StatementFor(k)]
    /\ ctasPc = "awaiting" => Len(ctasIssued) = ctasIdx
    /\ ctasPc = "returned" => Len(ctasIssued) = Len(KeyOrder)
    /\ (ctasPc = "rejected" /\ ctasError.kind = "engine error") =>
          /\ Len(ctasIssued) = ctasIdx
          /\ ctasError.name = KeyOrder[ctasIdx]
    /\ (ctasPc = "rejected" /\ ctasError.kind = "Invalid table name") =>
          /\ Len(ctasIssued) = ctasIdx - 1
          /\ ctasError.name = KeyOrder[ctasIdx]

\* the second statement failed after the first had created its table
C29_Witness ==
    /\ ctasPc = "rejected" /\ ctasError.kind = "engine error"
    /\ Len(ctasIssued) = 2
    /\ ctasIssued[1] = StatementFor(1)

----------------------------------------------------------------------------
(* Properties of the result normalisation *)

Formatted == qpc \in {"closing", "settled"} /\ outcome = Fulfilled

RowProducing == stmtKind \in {"select", "dmlReturning"}

\* the value a result row holds under a column name
ObjGet(obj, key) == obj[CHOOSE i \in 1..Len(obj) : obj[i][1] = key][2]

ObjHas(obj, key) == \E i \in 1..Len(obj) : obj[i][1] = key

\* C5: a single-column table whose column is named like an affected-row
\* count and that a row-producing statement produced is returned as rows,
\* one per row of the table, and not as an affected-row count
C5_ModeBeforeColumnName ==
    (/\ Formatted
     /\ RowProducing
     /\ Len(batch.fields) = 1
     /\ batch.fields[1].name \in CountAliases) =>
        /\ Len(result.rows) = Len(batch.rows)
        /\ result.numAffectedRows = Undefined

\* the rows of the result are the rows of the table, none dropped
RowsReturned ==
    /\ Len(result.rows) = Len(batch.rows)
    /\ \A r \in 1..Len(batch.rows) : \A i \in 1..Len(batch.fields) :
          /\ ObjHas(result.rows[r], batch.fields[i].name)
          /\ ObjGet(result.rows[r], batch.fields[i].name)
                = convertArrowValue(batch.rows[r][i], batch.fields[i])

\* C6: a mutation without RETURNING yields no rows and the engine's count
\* as a bigint in numAffectedRows; a mutation with RETURNING yields exactly
\* the returned rows
C6_MutationResults ==
    Formatted =>
        /\ stmtKind = "dml" =>
              /\ result.rows = <<>>
              /\ result.numAffectedRows.t = "bigint"
              /\ result.numAffectedRows.n = batch.rows[1][1].n
        /\ stmtKind = "dmlReturning" => RowsReturned

BinaryTypes == {"Binary", "LargeBinary", "FixedSizeBinary"}

\* C8: within one table, the values of a binary field are either all
\* rendered as bit strings or all returned as byte sequences
C8_ClassificationStablePerField ==
    (Formatted /\ Len(result.rows) = Len(batch.rows)) =>
        \A i \in 1..Len(batch.fields) :
            batch.fields[i].typeId \in BinaryTypes =>
                \A r1, r2 \in 1..Len(batch.rows) :
                    (/\ batch.rows[r1][i].t = "Uint8Array"
                     /\ batch.rows[r2][i].t = "Uint8Array") =>
                        (ObjGet(result.rows[r1], batch.fields[i].name).t = "string")
                        = (ObjGet(result.rows[r2], batch.fields[i].name).t = "string")

Converted == coerced # NotCoerced

\* the hints under the metadata keys the driver reads
FieldHints ==
    {field.metadata[k] : k \in DOMAIN field.metadata
                             \cap {MetadataKeys[i] : i \in 1..Len(MetadataKeys)}}

HasBitHint == \E h \in FieldHints : Includes(ToUpperCase(h), BIT)

\* C7: a variable-width binary value of a field without a BIT hint is
\* returned as a byte sequence holding the same bytes, none stripped
C7_BlobBytesPreserved ==
    (/\ Converted
     /\ field.typeId \in {"Binary", "LargeBinary"}
     /\ ~HasBitHint
     /\ raw.t = "Uint8Array") =>
        coerced = Uint8Array(raw.b)

\* the 8 binary digits of a byte, most significant first
Bits8(byte) ==
    [i \in 1..8 |-> IF (byte \div (2 ^ (8 - i))) % 2 = 1 THEN "1" ELSE "0"]

\* the concatenation of the bytes, each expanded to 8 binary digits
Expansion(bytes) ==
    [k \in 1..(8 * Len(bytes)) |-> Bits8(bytes[((k - 1) \div 8) + 1])[((k - 1) % 8) + 1]]

\* the last n characters of a string (all of it when it has fewer)
LastChars(str, n) ==
    [k \in 1..(IF n < Len(str) THEN n ELSE Len(str)) |->
        str[Len(str) - (IF n < Len(str) THEN n ELSE Len(str)) + k]]

\* the positive widths BIT(n) the hints of the field declare
DeclaredWidths ==
    {ParseInt(BitWidthMatch(h)) : h \in {g \in FieldHints : BitWidthMatch(g) # <<>>}}
        \ {0}

\* C9: a binary value of a field whose metadata holds a hint containing
\* "BIT" in any letter case is rendered as a string of '0'/'1' characters,
\* and when the hints declare one width BIT(n), n > 0, as the last n
\* characters of the expansion of its bytes to 8 binary digits each
C9_BitHintRendersBitString ==
    (/\ Converted
     /\ field.typeId \in BinaryTypes
     /\ HasBitHint
     /\ raw.t = "Uint8Array") =>
        /\ coerced.t = "string"
        /\ \A i \in 1..Len(coerced.c) : coerced.c[i] \in {"0", "1"}
        /\ \A n \in DeclaredWidths :
              DeclaredWidths = {n} => coerced.c = LastChars(Expansion(raw.b), n)

C9_Witness ==
    /\ Converted
    /\ field.typeId = "Binary"
    /\ \E h \in FieldHints : ToUpperCase(h) = <<"B", "I", "T", "(", "6", ")">>
    /\ raw = Uint8Array(<<2, 213>>)
    /\ coerced = String(TestPattern)

\* the first position of a string that holds a character other than '0'
FirstNonZero(str) ==
    IF \A i \in 1..Len(str) : str[i] = "0" THEN Len(str) + 1
    ELSE CHOOSE i \in 1..Len(str) :
            str[i] # "0" /\ \A j \in 1..(i - 1) : str[j] = "0"

\* C10: a value rendered as a bit string for a field that declares no
\* width is the expansion of its bytes without its leading '0' characters,
\* or "0" when nothing else is left
C10_BitStringWithoutWidth ==
    (/\ Converted
     /\ coerced.t = "string"
     /\ raw.t = "Uint8Array"
     /\ DeclaredWidths = {}) =>
        LET full == Expansion(raw.b)
            rest == SubSeq(full, FirstNonZero(full), Len(full))
        IN  /\ coerced.c = (IF rest = <<>> THEN <<"0">> ELSE rest)
            /\ coerced.c = <<"0">> \/ coerced.c[1] = "1"

----------------------------------------------------------------------------
(* Dates and timestamps *)

TemporalTypes == DateTypes \cup {"Timestamp"}

\* the part of a catalogue that is written as the text
PartOf(parts, text) == CHOOSE p \in parts : p.text = text

IsPart(parts, text) == \E p \in parts : p.text = text

\* the raw text is a date, a separator and a time of the catalogue
TimedText ==
    /\ raw.t = "string"
    /\ Len(raw.c) >= 19
    /\ IsPart(DateParts, SubSeq(raw.c, 1, 10))
    /\ IsPart(TimeParts, SubSeq(raw.c, 12, 19))

RawDate == PartOf(DateParts, SubSeq(raw.c, 1, 10))
RawTime == PartOf(TimeParts, SubSeq(raw.c, 12, 19))

\* the digit at position i of a fraction, 0 past its end
FractionDigit(frac, i) == IF i <= Len(frac) THEN DigitVal(frac[i]) ELSE 0

\* the first three digits of a fraction, right-padded with zeros
ThreeDigits(frac) ==
    100 * FractionDigit(frac, 1) + 10 * FractionDigit(frac, 2)
    + FractionDigit(frac, 3)

\* the instant of a day, a time of day and milliseconds read at an offset
\* of so many minutes ahead of UTC
InstantAt(day, time, ms, minutes) ==
    LET t == time + ms - minutes * 60000
    IN  Date(day + t \div MsPerDay, t % MsPerDay)

\* C11: a timestamp text that carries Z or an offset is coerced to the
\* instant the offset denotes, and a text with no offset is read as UTC,
\* never in the host's time zone.
C11_ZonedTimestampToUtc ==
    (Converted /\ field.typeId = "Timestamp" /\ TimedText) =>
        LET ms == ThreeDigits(FractionOf(raw.c))
            zone == ZoneOf(raw.c)
        IN  /\ IsPart(ZoneParts, zone) =>
                 coerced = InstantAt(RawDate.n, RawTime.n, ms,
                                     PartOf(ZoneParts, zone).n)
            /\ zone = <<>> =>
                 coerced = InstantAt(RawDate.n, RawTime.n, ms, 0)

\* 1992-09-20 11:30:00.123+03:00 has become 1992-09-20T08:30:00.123Z
C11_Witness ==
    /\ Converted
    /\ field.typeId = "Timestamp"
    /\ raw.t = "string"
    /\ raw.c = StampOf(<<"1", "9", "9", "2", "-", "0", "9", "-", "2", "0">>,
                       " ", <<"1", "1", ":", "3", "0", ":", "0", "0">>,
                       <<"1", "2", "3">>, <<"+", "0", "3", ":", "0", "0">>)
    /\ coerced = Date(8298, 30600123)

\* C12: a date or naive timestamp text with 1 to 6 fractional digits yields
\* an instant whose milliseconds are the first three fractional digits,
\* right-padded; the later digits are dropped, never rounded.
C12_FractionTruncated ==
    (/\ Converted
     /\ field.typeId \in TemporalTypes
     /\ TimedText
     /\ ZoneOf(raw.c) = <<>>
     /\ Len(FractionOf(raw.c)) \in 1..6) =>
        /\ IsValidDate(coerced)
        /\ coerced.b[2] % 1000 = ThreeDigits(FractionOf(raw.c))
        /\ coerced.b[2] \div 1000 = RawTime.n \div 1000
        /\ coerced.b[1] = RawDate.n

\* 1970-01-01 00:00:00.001234 has become 1970-01-01T00:00:00.001Z
C12_Witness ==
    /\ Converted
    /\ field.typeId \in DateTypes
    /\ raw.t = "string"
    /\ raw.c = StampOf(<<"1", "9", "7", "0", "-", "0", "1", "-", "0", "1">>,
                       " ", <<"0", "0", ":", "0", "0", ":", "0", "0">>,
                       <<"0", "0", "1", "2", "3", "4">>, <<>>)
    /\ coerced = Date(0, 1)

NumericRaw == raw.t \in {"number", "bigint"}

\* the instant of n days, or of n milliseconds, since the epoch
DaysInstant(n) == Date(n, 0)
MsInstant(n) == Date(n \div 86400000, n % 86400000)

\* C13 as stated: Date and Timestamp fields read a number by one rule,
\* days under 1e7 in magnitude and milliseconds otherwise.
C13_OneNumericRule ==
    (Converted /\ field.typeId \in TemporalTypes /\ NumericRaw) =>
        coerced = (IF -10000000 < raw.n /\ raw.n < 10000000
                   THEN DaysInstant(raw.n) ELSE MsInstant(raw.n))

\* C13 as amended: a Date field reads a number under 1e7 in magnitude as
\* days and any other number as milliseconds; a Timestamp field reads
\* every number as milliseconds.
C13_NumericRuleByType ==
    (Converted /\ NumericRaw) =>
        /\ field.typeId \in DateTypes =>
             coerced = (IF -10000000 < raw.n /\ raw.n < 10000000
                        THEN DaysInstant(raw.n) ELSE MsInstant(raw.n))
        /\ field.typeId = "Timestamp" => coerced = MsInstant(raw.n)

\* a Date field has read 8298 as days, 1992-09-20
C13_Witness ==
    /\ Converted
    /\ field.typeId \in DateTypes
    /\ raw = Number(8298)
    /\ coerced = Date(8298, 0)

----------------------------------------------------------------------------
(* Intervals *)

\* the value is an object with exactly the fields months, days and
\* micros, holding these numbers
IntervalIs(value, months, days, micros) ==
    /\ value.t = "Object"
    /\ Len(value.e) = 3
    /\ \A word \in {"months", "days", "micros"} : ObjHas(value.e, Chars(word))
    /\ ObjGet(value.e, Chars("months")) = Number(months)
    /\ ObjGet(value.e, Chars("days")) = Number(days)
    /\ ObjGet(value.e, Chars("micros")) = Number(micros)

\* the value is an object with exactly three numeric fields months, days
\* and micros
IntervalShaped(value) ==
    /\ value.t = "Object"
    /\ Len(value.e) = 3
    /\ \A word \in {"months", "days", "micros"} :
          /\ ObjHas(value.e, Chars(word))
          /\ ObjGet(value.e, Chars(word)).t = "number"

IntervalRaw == field.typeId = "Interval" /\ raw.t \in {"Array", "Int32Array"}

\* C14: every array or typed array delivered for an Interval field, of
\* any length and unit, is coerced to an object with exactly the numeric
\* fields months, days and micros.
C14_IntervalCanonicalShape ==
    (Converted /\ IntervalRaw) => IntervalShaped(coerced)

\* the 64-bit count whose high half is the signed word high and whose low
\* half is the 32 bits of the word low, divided by 1000 and rounded down
\* (2^32 = 4294967 * 1000 + 296; a negative low word stands for low + 2^32)
MicrosOfHalves(high, low) ==
    LET h == IF low < 0 THEN high + 1 ELSE high
    IN  h * 4294967 + (h * 296 + low) \div 1000

\* C15: a 4-value typed tuple months, days, high half, low half is coerced
\* to months and days unchanged and micros = the 64-bit nanosecond count
\* of the two halves divided by 1000, rounded down, also when the top bit
\* of the low half is set.
C15_IntervalNanosToMicros ==
    (Converted /\ field.typeId = "Interval" /\ raw.t = "Int32Array"
               /\ Len(raw.b) = 4) =>
        IntervalIs(coerced, raw.b[1], raw.b[2],
                   MicrosOfHalves(raw.b[3], raw.b[4]))

\* C16: a 2-value typed tuple is decoded by the unit: years and months to
\* months = 12 * years + months, days and milliseconds to days and
\* micros = 1000 * milliseconds.
C16_IntervalPairByUnit ==
    (Converted /\ field.typeId = "Interval" /\ raw.t = "Int32Array"
               /\ Len(raw.b) = 2) =>
        /\ field.unit = "YEAR_MONTH" =>
             IntervalIs(coerced, 12 * raw.b[1] + raw.b[2], 0, 0)
        /\ field.unit = "DAY_TIME" =>
             IntervalIs(coerced, 0, raw.b[1], 1000 * raw.b[2])

\* an interval of one year has become { months: 12, days: 0, micros: 0 }
C16_Witness ==
    /\ Converted
    /\ field.typeId = "Interval"
    /\ field.unit = "YEAR_MONTH"
    /\ raw = Int32Array(<<1, 0>>)
    /\ IntervalIs(coerced, 12, 0, 0)

----------------------------------------------------------------------------
(* Maps and structs *)

\* k1=v1, k2=v2, ... from entry i on
RECURSIVE PairsFrom(_, _)
PairsFrom(entries, i) ==
    IF i > Len(entries) THEN <<>>
    ELSE entries[i][1] \o <<"=">> \o entries[i][2].c
         \o (IF i < Len(entries) THEN <<",", " ">> ELSE <<>>)
         \o PairsFrom(entries, i + 1)

\* C17: a map with the entries (k1, v1) ... (kn, vn), n >= 0, is coerced to
\* the text "{" k1=v1, ..., kn=vn "}" with the entries in delivered order.
C17_MapCanonicalString ==
    (Converted /\ field.typeId = "Map" /\ raw.t = "MapRow") =>
        coerced = String(<<"{">> \o PairsFrom(raw.e, 1) \o <<"}">>)

StructRaw == field.typeId = "Struct" /\ raw.t \in {"Object", "ValueArray"}

KeysOf(entries) == {entries[i][1] : i \in 1..Len(entries)}

Declared(key) == \E i \in 1..Len(field.children) : field.children[i].name = key

ChildNamed(key) ==
    field.children[CHOOSE i \in 1..Len(field.children) :
                      field.children[i].name = key]

\* how many children of the field a positional value reaches
Zipped == IF Len(raw.e) < Len(field.children) THEN Len(raw.e)
          ELSE Len(field.children)

\* C18: a positional struct value is zipped with the declared children by
\* index; a keyed value keeps every key, each declared child coerced
\* under its own field and each undeclared key passed through unchanged.
C18_StructChildren ==
    (Converted /\ StructRaw) =>
        /\ coerced.t = "Object"
        /\ raw.t = "ValueArray" =>
             /\ KeysOf(coerced.e) = {field.children[i].name : i \in 1..Zipped}
             /\ \A i \in 1..Zipped :
                   ObjGet(coerced.e, field.children[i].name)
                       = convertArrowValue(raw.e[i][2], field.children[i])
        /\ raw.t = "Object" =>
             /\ KeysOf(coerced.e) = KeysOf(raw.e)
             /\ Len(coerced.e) = Len(raw.e)
             /\ \A i \in 1..Len(raw.e) :
                   ObjGet(coerced.e, raw.e[i][1])
                       = (IF Declared(raw.e[i][1])
                          THEN convertArrowValue(raw.e[i][2],
                                                 ChildNamed(raw.e[i][1]))
                          ELSE raw.e[i][2])

\* { d: 8298, u: 8298 } under a struct with the date child d has become
\* { d: 1992-09-20, u: 8298 }
C18_Witness ==
    /\ Converted
    /\ StructRaw
    /\ raw = Object(<<<<ChildD.name, Number(8298)>>, <<<<"u">>, Number(8298)>>>>)
    /\ Declared(ChildD.name)
    /\ coerced = Object(<<<<ChildD.name, Date(8298, 0)>>,
                          <<<<"u">>, Number(8298)>>>>)

\* the nullish members of a raw object are the same members of the result
NullsKept(rawEntries, outEntries) ==
    \A i \in 1..Len(rawEntries) :
        IsNullish(rawEntries[i][2]) =>
            /\ ObjHas(outEntries, rawEntries[i][1])
            /\ ObjGet(outEntries, rawEntries[i][1]) = rawEntries[i][2]

\* C19: a null or absent raw value is returned unchanged by every field
\* type, also as a child of a struct (and of a struct inside it).
C19_NullPropagates ==
    Converted =>
        /\ IsNullish(raw) => coerced = raw
        /\ (StructRaw /\ raw.t = "Object") =>
             /\ NullsKept(raw.e, coerced.e)
             /\ \A i \in 1..Len(raw.e) :
                   raw.e[i][2].t = "Object" =>
                       NullsKept(raw.e[i][2].e,
                                 ObjGet(coerced.e, raw.e[i][1]).e)
        /\ (StructRaw /\ raw.t = "ValueArray") =>
             \A i \in 1..Zipped :
                 IsNullish(raw.e[i][2]) =>
                     ObjGet(coerced.e, field.children[i].name) = raw.e[i][2]

\* a struct with the date child d has kept the null under d and the
\* absent value under its struct child n
C19_Witness ==
    /\ Converted
    /\ StructRaw
    /\ raw = Object(<<<<ChildD.name, Null>>, <<ChildN.name, Undefined>>>>)
    /\ Declared(ChildD.name) /\ Declared(ChildN.name)
    /\ coerced = raw

----------------------------------------------------------------------------
(* Rows *)

\* C20: a row-producing batch yields one row object per input row, in
\* order, and each row object has one entry per schema field, in schema
\* field order, whatever the fields are named.
C20_RowsInSchemaOrder ==
    (Formatted /\ RowProducing) =>
        /\ Len(result.rows) = Len(batch.rows)
        /\ \A r \in 1..Len(result.rows) :
              /\ ObjectKeys(result.rows[r])
                    = [i \in 1..Len(batch.fields) |-> batch.fields[i].name]
              /\ \A i \in 1..Len(batch.fields) :
                    result.rows[r][i][2]
                        = convertArrowValue(batch.rows[r][i], batch.fields[i])

----------------------------------------------------------------------------
(* Types the switch has no case for *)

UnknownType == field \in OtherFields /\ coerced # NotCoerced

\* the raw value is an object that answers to the method
Answers(word) ==
    \E i \in 1..Len(raw.e) : raw.t = "Custom" /\ raw.e[i][1] = Chars(word)

\* what the raw value's method returns
Returned(word) ==
    raw.e[CHOOSE i \in 1..Len(raw.e) : raw.e[i][1] = Chars(word)][2]

\* C21: for a field of a type without a case, the result is the first
\* applicable of: the elements of a typed array, the result of toArray (its
\* elements when that is a typed array), of valueOf, of toJSON, and otherwise
\* the raw value itself; a later conversion is used only when no earlier one
\* applies.
C21_GenericFallbackOrder ==
    UnknownType =>
        /\ IsView(raw) => coerced = PlainArray(raw.b)
        /\ Answers("toArray") =>
              \/ coerced = Returned("toArray") /\ ~IsView(coerced)
              \/ /\ IsView(Returned("toArray"))
                 /\ coerced = PlainArray(Returned("toArray").b)
        /\ (Answers("valueOf") /\ ~Answers("toArray")) =>
              coerced = Returned("valueOf")
        /\ (Answers("toJSON") /\ ~Answers("toArray") /\ ~Answers("valueOf")) =>
              coerced = Returned("toJSON")
        /\ (~IsView(raw) /\ ~Answers("toArray") /\ ~Answers("valueOf")
            /\ ~Answers("toJSON")) => coerced = raw

\* an object with all three methods came back as the elements of the typed
\* array its toArray returned
C21_Witness ==
    /\ UnknownType
    /\ Answers("toArray") /\ Answers("valueOf") /\ Answers("toJSON")
    /\ Returned("toArray") = Uint8Array(<<1, 2>>)
    /\ coerced = PlainArray(<<1, 2>>)

----------------------------------------------------------------------------
(* Texts that are no date *)

\* a text without a year, a month and a day at its start
Dateless ==
    /\ raw.t = "string"
    /\ ~(/\ Len(raw.c) >= 10
         /\ \A i \in {1, 2, 3, 4, 6, 7, 9, 10} : raw.c[i] \in Digits
         /\ raw.c[5] = "-" /\ raw.c[8] = "-")

\* C22: a text that is no date is coerced, by a Date field and by a
\* Timestamp field (with or without a zone mark in the text), to the
\* instant that is not valid; the coercion returns a value and never fails.
C22_JunkTextIsInvalidInstant ==
    (field.typeId \in TemporalTypes /\ Dateless /\ coerced # NotCoerced) =>
        /\ IsDate(coerced)
        /\ ~IsValidDate(coerced)
        /\ coerced = InvalidDate

\* the text abcZ, which carries a zone mark, became the invalid instant of
\* a Timestamp field
C22_Witness ==
    /\ field = TimestampField
    /\ raw = String(<<"a", "b", "c", "Z">>)
    /\ coerced = InvalidDate

\* the text abc became the invalid instant of a Date field
C22_DateWitness ==
    /\ field.typeId \in DateTypes
    /\ raw = String(<<"a", "b", "c">>)
    /\ coerced = InvalidDate

----------------------------------------------------------------------------
(* The alias of a mapped reference *)

\* the alias the table node itself carries
CarriedAlias == Coalesce(node.nodeAlias, node.tableAlias)

\* the mapped expression, ' as ' and the quoted alias, and nothing else
AliasedOnce(alias) ==
    Emitted = tableMappings[node.name] \o AS \o QuotedIdentifier(alias)

\* C24: for a mapped reference the compiled text holds the alias exactly
\* once: under an enclosing alias node the wrapper's alias (visitTable adds
\* none); without one, the alias the table node carries, after ' as ' and
\* quoted; and a reference without an alias gets no alias clause.
C24_AliasExactlyOnce ==
    (Compiled /\ IsMapped) =>
        IF node.parent = "AliasNode" THEN AliasedOnce(node.wrapAlias)
        ELSE IF CarriedAlias.shape # "none"
             THEN CarriedAlias.name # <<>> /\ AliasedOnce(CarriedAlias.name)
        ELSE Emitted = tableMappings[node.name]

\* the same for the aliases that have a name
C24_NamedAliasOnce ==
    (Compiled /\ IsMapped /\ CallerAlias # <<>>) => AliasedOnce(CallerAlias)

----------------------------------------------------------------------------
(* The table mapping over the lifetime of a compiler *)

\* C23: once a reference has been compiled, every later compilation of it
\* by the same instance leaves the same SQL, whatever the caller does to the
\* configuration object in between.
C23_SameSqlForLifetime == [][sql # NoValue => sql' = sql]_vars

\* a compilation reads the table mapping and leaves it as it was
C23_CompilationReadsOnly ==
    [][sql' # sql => tableMappings' = tableMappings]_vars

----------------------------------------------------------------------------
(* The life of a driver *)

CallsOf(op) == {i \in 1..Len(calls) : calls[i].op = op}

\* C25: as long as destroy() has not been called, whatever init() calls
\* were made and however they overlap, the factory has been invoked at most
\* once and the driver holds no other database than the first call's.
C25_InitIdempotent ==
    CallsOf("destroy") = {} =>
        /\ factoryCalls <= 1
        /\ db \in {NoDb, 1}

\* the init() calls that set #db to the database
Initializations(d) ==
    Cardinality({i \in CallsOf("init") :
                    calls[i].pc = "done" /\ calls[i].held = d})

\* the acquireConnection() calls that got past the check of #db
Admitted == {i \in CallsOf("acquireConnection") : calls[i].pc # "not initialized"}

\* C26: an acquireConnection() made before any init() has returned, or
\* after a destroy() with no init() since, is rejected as not initialized,
\* and only calls that were not rejected open a connection or run
\* onCreateConnection; a database is terminated at most once for each time
\* it was made the driver's database.
C26_GuardedLifecycle ==
    /\ \A i \in CallsOf("acquireConnection") :
          calls[i].early => calls[i].pc = "not initialized"
    /\ connections = Cardinality(Admitted)
    /\ callbacks <= Cardinality(Admitted)
    /\ \A d \in Dbs : terminations[d] <= Initializations(d)

----------------------------------------------------------------------------
(* The statement of a query *)

\* what the try block of executeQuery leaves
Expected ==
    IF "query" \in faults THEN Rejected("query")
    ELSE IF "format" \in faults THEN Rejected("format")
    ELSE Fulfilled

\* C27: once prepare has succeeded the statement is closed exactly once,
\* whether the query succeeds, the query fails or the formatting fails, and
\* the call settles with the result or the error of the query even when
\* the close fails.
C27_ClosedOnceOutcomeKept ==
    /\ stmtCloses <= 1
    /\ (qpc = "settled" /\ "prepare" \notin faults) =>
          /\ stmtCloses = 1
          /\ outcome = Expected
          /\ outcome = Fulfilled => result = formatToResult(batch)
    /\ (qpc = "settled" /\ "prepare" \in faults) => stmtCloses = 0

\* a failed query whose close failed too settled with the query's error
C27_Witness ==
    /\ qpc = "settled"
    /\ {"query", "close"} \subseteq faults /\ "prepare" \notin faults
    /\ outcome = Rejected("query")
    /\ stmtCloses = 1

----------------------------------------------------------------------------
(* The statement and the results of a stream *)

\* the consumer has nothing more to do with the stream
StreamOver ==
    \/ outerPc = "threw"
    \/ outerPc = "completed" /\ streamIn.consumer = "forAwait"
    \/ innerPc = "completed"

\* the consumer read the stream to its end
ReadToEnd ==
    \/ outerPc = "completed" /\ streamIn.consumer = "forAwait"
    \/ innerPc = "completed" /\ cursor = Len(streamIn.batches)

\* C28: a consumer that reads the stream to its end has received one
\* formatted result for each batch, in the order of the engine; and when
\* the consumer is through with the stream (send failed, the iteration
\* completed, or the consumer gave up early) the statement has been closed.
C28_StreamDeliversAndCloses ==
    /\ ReadToEnd =>
          delivered = [i \in 1..Len(streamIn.batches) |->
                          formatToResult(streamIn.batches[i])]
    /\ StreamOver => streamCloses = 1

\* the part of C28 about a failed send
C28_FailedSendCloses == outerPc = "threw" => streamCloses = 1

----------------------------------------------------------------------------
(* The tables of the introspector *)

PairOf(row) == <<row.table_schema, row.table_name>>

\* the positions of the rows that are the first with their schema and name
FirstRows ==
    {i \in 1..Len(columnRows) :
        \A j \in 1..(i - 1) : PairOf(columnRows[j]) # PairOf(columnRows[i])}

\* the k-th of those positions
RECURSIVE NthFirst(_)
NthFirst(k) ==
    IF k = 1 THEN CHOOSE i \in FirstRows : \A j \in FirstRows : i <= j
    ELSE CHOOSE i \in FirstRows :
            /\ i > NthFirst(k - 1)
            /\ \A j \in FirstRows : j > NthFirst(k - 1) => i <= j

\* the rows with the schema and the name, in the order of the input
RowsWith(pair) == SelectSeq(columnRows, LAMBDA row : PairOf(row) = pair)

\* C30: the tables returned are, in the order of first appearance, one for
\* each distinct pair of schema and table name among the rows, and each
\* holds the columns of exactly the rows with its pair, in input order.
C30_OneTablePerSchemaAndName ==
    tableMetadata.parsed =>
        /\ Len(tableMetadata.tables) = Cardinality(FirstRows)
        /\ \A k \in 1..Len(tableMetadata.tables) :
              LET pair == PairOf(columnRows[NthFirst(k)])
                  tbl == tableMetadata.tables[k]
              IN  /\ tbl.schema = pair[1]
                  /\ tbl.name = pair[2]
                  /\ tbl.columns =
                        [i \in 1..Len(RowsWith(pair)) |->
                            RowsWith(pair)[i].column_name]

\* the same for rows whose schema and table names hold no dot
Dotless(name) == \A i \in 1..Len(name) : name[i] # "."

C30_DotlessNames ==
    (/\ tableMetadata.parsed
     /\ \A i \in 1..Len(columnRows) :
           Dotless(columnRows[i].table_schema)
           /\ Dotless(columnRows[i].table_name))
    => C30_OneTablePerSchemaAndName

----------------------------------------------------------------------------
(* Specifications *)

\* the components a specification leaves alone
LaterIdle == DriverIdle /\ StreamIdle /\ SchemaIdle

InitCompile ==
    CompilerInit /\ CtasIdle /\ CoerceIdle /\ QueryIdle /\ LaterIdle

SpecCompile == InitCompile /\ [][CompilerNext]_vars

InitCtas ==
    CtasInit /\ CompilerIdle /\ CoerceIdle /\ QueryIdle /\ LaterIdle

SpecCtas == InitCtas /\ [][CtasNext]_vars

InitCoerce ==
    CoerceInit /\ CompilerIdle /\ CtasIdle /\ QueryIdle /\ LaterIdle

SpecCoerce == InitCoerce /\ [][CoerceNext]_vars

InitQuery ==
    QueryInit /\ CompilerIdle /\ CtasIdle /\ CoerceIdle /\ LaterIdle

SpecQuery == InitQuery /\ [][QueryNext]_vars

InitLifetime ==
    LifetimeInit /\ CtasIdle /\ CoerceIdle /\ QueryIdle /\ LaterIdle

SpecLifetime == InitLifetime /\ [][LifetimeNext]_vars

EarlierIdle == CompilerIdle /\ CtasIdle /\ CoerceIdle /\ QueryIdle

InitDriver == DriverInit /\ EarlierIdle /\ StreamIdle /\ SchemaIdle

SpecDriver == InitDriver /\ [][DriverNext]_vars

InitStream == StreamInit /\ EarlierIdle /\ DriverIdle /\ SchemaIdle

SpecStream == InitStream /\ [][StreamNext]_vars

InitSchema == SchemaInit /\ EarlierIdle /\ DriverIdle /\ StreamIdle

SpecSchema == InitSchema /\ [][SchemaNext]_vars

====
